---- MODULE Spec2Model ----
(***************************************************************************)
(* Document information extractor: the pattern extractor                   *)
(* (extractor_regex.py), the AI extractor's post-processing (extractor.py) *)
(* and the form's extraction session (form.py).                            *)
(*                                                                         *)
(* A Python str is a sequence of one-character strings; the Python value   *)
(* None is the one-element sequence None, which no str equals.             *)
(***************************************************************************)
EXTENDS Integers, Sequences, FiniteSets, TLC

(***************************************************************************)
(* Characters and the str methods the code uses.                           *)
(***************************************************************************)
Upper == {"A","B","C","D","E","F","G","H","I","J","K","L","M",
          "N","O","P","Q","R","S","T","U","V","W","X","Y","Z"}

Digit == {"0","1","2","3","4","5","6","7","8","9"}

Letter ==
  Upper \cup {"a","b","c","d","e","f","g","h","i","j","k","l","m",
             "n","o","p","q","r","s","t","u","v","w","x","y","z"}

\* \s of module re, and the characters str.strip() and str.split() remove
Space == {" ", "\t", "\n", "\r", "\f"}

None == <<"None">>

UpLow ==
  ("A" :> "a") @@ ("B" :> "b") @@ ("C" :> "c") @@ ("D" :> "d") @@ ("E" :> "e") @@
  ("F" :> "f") @@ ("G" :> "g") @@ ("H" :> "h") @@ ("I" :> "i") @@ ("J" :> "j") @@
  ("K" :> "k") @@ ("L" :> "l") @@ ("M" :> "m") @@ ("N" :> "n") @@ ("O" :> "o") @@
  ("P" :> "p") @@ ("Q" :> "q") @@ ("R" :> "r") @@ ("S" :> "s") @@ ("T" :> "t") @@
  ("U" :> "u") @@ ("V" :> "v") @@ ("W" :> "w") @@ ("X" :> "x") @@ ("Y" :> "y") @@
  ("Z" :> "z")

ToLower(c) == IF c \in Upper THEN UpLow[c] ELSE c

\* str.lower()
lower(s) == [i \in 1..Len(s) |-> ToLower(s[i])]

Min(a, b) == IF a <= b THEN a ELSE b

\* the least and the greatest element of a non-empty set of integers
MinOf(S) == CHOOSE x \in S : \A y \in S : x <= y

MaxOf(S) == CHOOSE x \in S : \A y \in S : x >= y

\* the positions of s that hold no whitespace
Inked(s) == {i \in 1..Len(s) : s[i] \notin Space}

\* str.strip()
strip(s) == IF Inked(s) = {} THEN <<>> ELSE SubSeq(s, MinOf(Inked(s)), MaxOf(Inked(s)))

\* needle in hay
Contains(hay, needle) ==
  \E p \in 1..(Len(hay) - Len(needle) + 1) :
     \A i \in 1..Len(needle) : hay[p + i - 1] = needle[i]

\* str.startswith
StartsWith(s, prefix) ==
  Len(prefix) <= Len(s) /\ \A i \in 1..Len(prefix) : s[i] = prefix[i]

\* the index of the first character of s at or after p that is in seps, or Len(s)+1
FindSep(s, seps, p) ==
  LET hits == {q \in p..Len(s) : s[q] \in seps}
  IN IF hits = {} THEN Len(s) + 1 ELSE MinOf(hits)

\* re.split(r'[<seps>]', s) and str.split(sep): the pieces between separators
RECURSIVE SplitOn(_, _)
SplitOn(s, seps) ==
  LET k == FindSep(s, seps, 1)
  IN IF k > Len(s) THEN <<s>>
     ELSE <<SubSeq(s, 1, k - 1)>> \o SplitOn(SubSeq(s, k + 1, Len(s)), seps)

\* str.split(): the maximal runs of non-whitespace characters
RECURSIVE split(_)
split(s) ==
  LET t == IF Inked(s) = {} THEN <<>> ELSE SubSeq(s, MinOf(Inked(s)), Len(s))
      k == FindSep(t, Space, 1)
  IN IF t = <<>> THEN <<>>
     ELSE <<SubSeq(t, 1, k - 1)>> \o split(SubSeq(t, k, Len(t)))

\* sep.join(words)
RECURSIVE join(_, _)
join(sep, words) ==
  IF words = <<>> THEN <<>>
  ELSE IF Len(words) = 1 THEN words[1]
  ELSE words[1] \o sep \o join(sep, Tail(words))

\* words[:n]
Take(words, n) == SubSeq(words, 1, Min(n, Len(words)))

\* str.isalpha()
isalpha(w) == w # <<>> /\ \A i \in 1..Len(w) : w[i] \in Letter

\* str.isdigit()
isdigit(w) == w # <<>> /\ \A i \in 1..Len(w) : w[i] \in Digit

\* the characters of s that are in keep, in order: re.sub(r'[^<keep>]', '', s)
Keep(s, keep) == SelectSeq(s, LAMBDA c : c \in keep)

\* int(w) for a string of digits
DigitVal ==
  ("0" :> 0) @@ ("1" :> 1) @@ ("2" :> 2) @@ ("3" :> 3) @@ ("4" :> 4) @@
  ("5" :> 5) @@ ("6" :> 6) @@ ("7" :> 7) @@ ("8" :> 8) @@ ("9" :> 9)

RECURSIVE int(_)
int(w) == IF w = <<>> THEN 0 ELSE 10 * int(SubSeq(w, 1, Len(w) - 1)) + DigitVal[w[Len(w)]]

(***************************************************************************)
(* Regular expressions: module re's backtracking matcher.  A pattern is a  *)
(* tree of nodes; M(r, s, p) is the sequence of the positions at which a   *)
(* match of r that starts at p can end, in the order the matcher tries     *)
(* them (greedy repetitions longest first, alternatives left to right), so *)
(* its head is the match re reports.  Literals compare case-insensitively: *)
(* every pattern with a literal letter is compiled with re.IGNORECASE, and *)
(* a class [A-Z] or [a-z] of such a pattern is written Letter.             *)
(***************************************************************************)
Lit(cs) == [t |-> "lit", cs |-> cs]

In(c) == [t |-> "set", c |-> c]

NotIn(c) == [t |-> "nset", c |-> c]

Seq_(rs) == [t |-> "cat", rs |-> rs]

Alt(rs) == [t |-> "alt", rs |-> rs]

\* r{lo,hi}, greedy; hi = -1 is no upper limit
Rep(r, lo, hi) == [t |-> "rep", r |-> r, lo |-> lo, hi |-> hi]

Opt(r) == Rep(r, 0, 1)

Plus(r) == Rep(r, 1, -1)

Star(r) == Rep(r, 0, -1)

\* ^ under re.MULTILINE
Bol == [t |-> "bol"]

\* \b
Wb == [t |-> "wb"]

Empty == Seq_(<<>>)

IsWordAt(s, p) == p >= 1 /\ p <= Len(s) /\ s[p] \in Letter \cup Digit \cup {"_"}

\* the number of characters from p on that the class r ([...] or [^...]) accepts, at
\* most max of them
RunLen(r, s, p, max) ==
  Min(IF max = -1 THEN Len(s) ELSE max,
      MinOf({q \in p..Len(s) : (r.t = "set") # (s[q] \in r.c)} \cup {Len(s) + 1}) - p)

\* <<p + k, p + k - 1, ..., p + lo>>, empty when k < lo
Downto(p, k, lo) == [i \in 1..(k - lo + 1) |-> p + k - i + 1]

RECURSIVE M(_, _, _)
RECURSIVE MSRange(_, _, _, _, _)
RECURSIVE CatFrom(_, _, _, _)
RECURSIVE AltFrom(_, _, _, _)
RECURSIVE RepFrom(_, _, _, _, _, _)
RECURSIVE RepOver(_, _, _, _, _, _)

M(r, s, p) ==
  CASE r.t = "lit" ->
         IF p + Len(r.cs) - 1 <= Len(s)
            /\ \A i \in 1..Len(r.cs) : ToLower(s[p + i - 1]) = ToLower(r.cs[i])
         THEN <<p + Len(r.cs)>> ELSE <<>>
    [] r.t = "set" -> IF p <= Len(s) /\ s[p] \in r.c THEN <<p + 1>> ELSE <<>>
    [] r.t = "nset" -> IF p <= Len(s) /\ s[p] \notin r.c THEN <<p + 1>> ELSE <<>>
    [] r.t = "cat" -> CatFrom(r.rs, 1, s, <<p>>)
    [] r.t = "alt" -> AltFrom(r.rs, 1, s, p)
    [] r.t = "rep" ->
         IF r.r.t \in {"set", "nset"}
         THEN Downto(p, RunLen(r.r, s, p, r.hi), r.lo)
         ELSE RepFrom(r.r, r.lo, r.hi, 0, s, p)
    [] r.t = "bol" -> IF p = 1 \/ s[p - 1] = "\n" THEN <<p>> ELSE <<>>
    [] r.t = "wb" -> IF IsWordAt(s, p - 1) # IsWordAt(s, p) THEN <<p>> ELSE <<>>

\* the ends of r from each of the positions ps[lo..hi], in order
MSRange(r, s, ps, lo, hi) ==
  IF lo > hi THEN <<>>
  ELSE IF lo = hi THEN M(r, s, ps[lo])
  ELSE LET mid == (lo + hi) \div 2
       IN MSRange(r, s, ps, lo, mid) \o MSRange(r, s, ps, mid + 1, hi)

CatFrom(rs, i, s, ps) ==
  IF i > Len(rs) \/ ps = <<>> THEN ps ELSE CatFrom(rs, i + 1, s, MSRange(rs[i], s, ps, 1, Len(ps)))

AltFrom(rs, i, s, p) ==
  IF i > Len(rs) THEN <<>> ELSE M(rs[i], s, p) \o AltFrom(rs, i + 1, s, p)

\* cnt repetitions are done: one more first (greedy), then stop if lo is reached
RepFrom(r, lo, hi, cnt, s, p) ==
  (IF hi = -1 \/ cnt < hi
   THEN RepOver(r, lo, hi, cnt + 1, s, SelectSeq(M(r, s, p), LAMBDA e : e > p))
   ELSE <<>>)
  \o (IF cnt >= lo THEN <<p>> ELSE <<>>)

RepOver(r, lo, hi, cnt, s, ps) ==
  IF ps = <<>> THEN <<>>
  ELSE RepFrom(r, lo, hi, cnt, s, Head(ps)) \o RepOver(r, lo, hi, cnt, s, Tail(ps))

(***************************************************************************)
(* A compiled pattern: what precedes group 1, group 1, what follows it.    *)
(* A match is [start, gs, ge, end]: the match is s[start:end], group 1 is  *)
(* s[gs:ge]; NoMatch has start = 0.                                        *)
(***************************************************************************)
Pat(pre, grp, post) == [pre |-> pre, grp |-> grp, post |-> post]

NoMatch == [start |-> 0, gs |-> 0, ge |-> 0, end |-> 0]

\* the first match of ms, NoMatch when none of them is one
FirstHit(ms) ==
  IF \A i \in DOMAIN ms : ms[i].start = 0 THEN NoMatch
  ELSE ms[MinOf({i \in DOMAIN ms : ms[i].start # 0})]

\* the match whose group ends at e2, ends being the ends of post from there
MatchEnding(p, e1, e2, ends) ==
  IF ends = <<>> THEN NoMatch ELSE [start |-> p, gs |-> e1, ge |-> e2, end |-> Head(ends)]

\* the first end of the group, in the matcher's order, after which post matches
TryPost(pat, s, p, e1, e2s) ==
  FirstHit([i \in 1..Len(e2s) |-> MatchEnding(p, e1, e2s[i], M(pat.post, s, e2s[i]))])

\* the first end of pre, in the matcher's order, after which group and post match
TryGroup(pat, s, p, e1s) ==
  FirstHit([i \in 1..Len(e1s) |-> TryPost(pat, s, p, e1s[i], M(pat.grp, s, e1s[i]))])

\* pattern.match(s, p)
MatchAt(pat, s, p) == TryGroup(pat, s, p, M(pat.pre, s, p))

\* re.search from position p on: the leftmost match
SearchFrom(pat, s, p) == FirstHit([q \in p..(Len(s) + 1) |-> MatchAt(pat, s, q)])

re_search(pat, s) == SearchFrom(pat, s, 1)

\* where the scan resumes after the match m
Resume(m) == IF m.end > m.start THEN m.end ELSE m.end + 1

\* match.group(1)
group1(s, m) == SubSeq(s, m.gs, m.ge - 1)

\* re.findall: group 1 of the non-overlapping matches, left to right; m is the
\* leftmost match not yet taken
RECURSIVE FindAllFrom(_, _, _)
FindAllFrom(pat, s, m) ==
  IF m.start = 0 THEN <<>>
  ELSE <<group1(s, m)>> \o FindAllFrom(pat, s, SearchFrom(pat, s, Resume(m)))

re_findall(pat, s) == FindAllFrom(pat, s, re_search(pat, s))

(***************************************************************************)
(* RegexExtractor (extractor_regex.py).  Every pattern but the email one   *)
(* is compiled with re.IGNORECASE.                                         *)
(***************************************************************************)
FieldKeys == {"name", "email", "phone", "address", "date_of_birth", "company",
              "job_title", "date", "amount", "id_number", "website", "zip_code"}

\* [:\s]+
LabelSep == Plus(In({":"} \cup Space))

\* [A-Z][a-z]+
NameWord == Seq_(<<In(Letter), Plus(In(Letter))>>)

\* [A-Z][a-z]+(?:\s+[A-Z][a-z]+)+
NameWords == Seq_(<<NameWord, Plus(Seq_(<<Plus(In(Space)), NameWord>>))>>)

\* [A-Z][a-z]+\s+[A-Z][a-z]+
TwoNameWords == Seq_(<<NameWord, Plus(In(Space)), NameWord>>)

\* the patterns in another order: the line-start pair before the labels
name_patterns_positional_first == <<
  Pat(Bol, TwoNameWords, Empty),
  Pat(Seq_(<<Lit(<<"F","u","l","l">>), Plus(In(Space)), Lit(<<"N","a","m","e">>), LabelSep>>), NameWords, Empty),
  Pat(Seq_(<<Alt(<<Lit(<<"N","a","m","e">>), Lit(<<"N","a","m","e"," ","o","f">>), Lit(<<"A","p","p","l","i","c","a","n","t"," ","N","a","m","e">>),
                   Lit(<<"C","o","n","t","a","c","t"," ","N","a","m","e">>)>>), LabelSep>>), NameWords, Empty),
  Pat(Seq_(<<Alt(<<Lit(<<"D","e","a","r">>), Lit(<<"H","e","l","l","o">>), Lit(<<"H","i">>)>>), Plus(In(Space))>>),
      TwoNameWords, Empty) >>

name_patterns == <<
  Pat(Seq_(<<Lit(<<"F","u","l","l">>), Plus(In(Space)), Lit(<<"N","a","m","e">>), LabelSep>>), NameWords, Empty),
  Pat(Seq_(<<Alt(<<Lit(<<"N","a","m","e">>), Lit(<<"N","a","m","e"," ","o","f">>), Lit(<<"A","p","p","l","i","c","a","n","t"," ","N","a","m","e">>),
                   Lit(<<"C","o","n","t","a","c","t"," ","N","a","m","e">>)>>), LabelSep>>), NameWords, Empty),
  Pat(Bol, TwoNameWords, Empty),
  Pat(Seq_(<<Alt(<<Lit(<<"D","e","a","r">>), Lit(<<"H","e","l","l","o">>), Lit(<<"H","i">>)>>), Plus(In(Space))>>),
      TwoNameWords, Empty) >>

\* all(word[0].isupper() and word.isalpha() for word in words[:2])
TwoCapitalizedWords(words) ==
  \A i \in 1..Min(2, Len(words)) : words[i][1] \in Upper /\ isalpha(words[i])

\* the body of the loop over matches: the validated name of one match, or None
NameOfMatch(s, m) ==
  LET name == strip(SplitOn(strip(group1(s, m)), {",", "\n", "\r"})[1])
      words == split(name)
  IN IF Len(words) >= 2 /\ TwoCapitalizedWords(words)
     THEN IF Len(words) >= 3 THEN join(<<" ">>, Take(words, 3)) ELSE join(<<" ">>, Take(words, 2))
     ELSE None

\* the first of the values vs that is not None, None when there is none
FirstValue(vs) ==
  IF \A i \in DOMAIN vs : vs[i] = None THEN None
  ELSE vs[MinOf({i \in DOMAIN vs : vs[i] # None})]

\* for match in re.finditer(pattern, text): the first validated name, m being the
\* leftmost match not yet looked at
RECURSIVE NameIter(_, _, _)
NameIter(pat, s, m) ==
  IF m.start = 0 THEN None
  ELSE IF NameOfMatch(s, m) # None THEN NameOfMatch(s, m)
  ELSE NameIter(pat, s, SearchFrom(pat, s, Resume(m)))

\* for pattern in patterns
NameByPatterns(pats, s) ==
  FirstValue([i \in 1..Len(pats) |-> NameIter(pats[i], s, re_search(pats[i], s))])

\* lines[:10]
NameScanLines == 10

\* for line in lines[:10]: the first line whose two leading words look like a name
RECURSIVE NameFromLines(_, _)
NameFromLines(lines, i) ==
  IF i > Len(lines) THEN None
  ELSE LET line == strip(lines[i])
           words == split(line)
       IN IF line = <<>> \/ StartsWith(line, <<"=">>) \/ Len(line) < 5
          THEN NameFromLines(lines, i + 1)
          ELSE IF Len(words) >= 2 /\ TwoCapitalizedWords(words)
                  /\ ~ \E label \in {<<"n","a","m","e",":">>, <<"e","m","a","i","l",":">>, <<"p","h","o","n","e",":">>, <<"a","d","d","r","e","s","s",":">>, <<"b","i","l","l"," ","t","o",":">>,
                                  <<"i","n","v","o","i","c","e">>} : Contains(lower(line), label)
          THEN join(<<" ">>, Take(words, 2))
          ELSE NameFromLines(lines, i + 1)

extract_name(text) ==
  FirstValue(<<NameByPatterns(name_patterns, text),
               NameFromLines(Take(SplitOn(text, {"\n"}), NameScanLines), 1)>>)

\* \b[A-Za-z0-9._%+-]+@[A-Za-z0-9.-]+\.[A-Z|a-z]{2,}\b
email_pattern ==
  Pat(Wb,
      Seq_(<<Plus(In(Letter \cup Digit \cup {".", "_", "%", "+", "-"})), Lit(<<"@">>),
             Plus(In(Letter \cup Digit \cup {".", "-"})), Lit(<<".">>),
             Rep(In(Letter \cup {"|"}), 2, -1)>>),
      Wb)

personal_keywords == {<<"c","u","s","t","o","m","e","r">>, <<"c","o","n","t","a","c","t">>, <<"e","m","a","i","l">>, <<"m","a","i","l">>}

generic_keywords == {<<"b","i","l","l","i","n","g">>, <<"s","u","p","p","o","r","t">>, <<"i","n","f","o">>, <<"n","o","r","e","p","l","y">>, <<"n","o","-","r","e","p","l","y">>, <<"a","d","m","i","n">>}

IsGeneric(email) == \E k \in generic_keywords : Contains(lower(email), k)

\* no preference: the first address found
FirstFound(matches, i) == matches[1]

\* for email in matches: the first that is not skipped and passes the test of line 102
RECURSIVE FirstPersonal(_, _)
FirstPersonal(matches, i) ==
  IF i > Len(matches) THEN None
  ELSE IF IsGeneric(matches[i]) THEN FirstPersonal(matches, i + 1)
  ELSE IF (\E k \in personal_keywords : Contains(lower(matches[i]), k))
          \/ ~ IsGeneric(matches[i])
  THEN matches[i]
  ELSE FirstPersonal(matches, i + 1)

extract_email(text) ==
  LET matches == re_findall(email_pattern, text)
  IN IF matches = <<>> THEN None ELSE FirstValue(<<FirstPersonal(matches, 1), matches[1]>>)

\* [-.\s]?
PhoneSep == Opt(In({"-", "."} \cup Space))

phone_patterns == <<
  Pat(Seq_(<<Alt(<<Lit(<<"P","h","o","n","e">>), Lit(<<"M","o","b","i","l","e">>), Lit(<<"T","e","l">>), Lit(<<"C","o","n","t","a","c","t">>),
                   Lit(<<"T","e","l","e","p","h","o","n","e">>)>>), LabelSep>>),
      Seq_(<<Opt(In({"+"})), Rep(In(Digit \cup Space \cup {"-", "(", ")"}), 10, -1)>>),
      Empty),
  Pat(Wb,
      Seq_(<<Opt(Lit(<<"+">>)), Opt(Lit(<<"1">>)), PhoneSep, Opt(Lit(<<"(">>)), Rep(In(Digit), 3, 3),
             Opt(Lit(<<")">>)), PhoneSep, Rep(In(Digit), 3, 3), PhoneSep, Rep(In(Digit), 4, 4)>>),
      Wb),
  Pat(Wb,
      Seq_(<<Rep(In(Digit), 3, 3), PhoneSep, Rep(In(Digit), 3, 3), PhoneSep,
             Rep(In(Digit), 4, 4)>>),
      Wb),
  Pat(Wb,
      Seq_(<<Lit(<<"+">>), Rep(In(Digit), 1, 3), PhoneSep, Rep(In(Digit), 1, 4), PhoneSep,
             Rep(In(Digit), 1, 4), PhoneSep, Rep(In(Digit), 1, 9)>>),
      Wb) >>

\* a phone reduced to its digits
PhoneDigitsOfMatch(s, m) ==
  LET phone == Keep(group1(s, m), Digit)
  IN IF Len(phone) >= 10 THEN phone ELSE None

\* the first match of one pattern, validated: len(re.sub(r'[^\d+]', '', phone)) >= 10
PhoneOfMatch(s, m) ==
  LET phone == strip(group1(s, m))
  IN IF Len(Keep(phone, Digit \cup {"+"})) >= 10 THEN phone ELSE None


address_patterns == <<
  Pat(Seq_(<<Alt(<<Lit(<<"A","d","d","r","e","s","s">>), Lit(<<"L","o","c","a","t","i","o","n">>), Lit(<<"R","e","s","i","d","e","n","c","e">>),
                   Lit(<<"M","a","i","l","i","n","g"," ","A","d","d","r","e","s","s">>)>>), LabelSep>>),
      Rep(NotIn({"\n"}), 10, 150), Empty),
  Pat(Empty,
      Seq_(<<Plus(In(Digit)), Plus(In(Space)), Plus(In(Letter \cup Digit \cup Space \cup {","})),
             Alt(<<Lit(<<"S","t","r","e","e","t">>), Lit(<<"S","t">>), Lit(<<"A","v","e","n","u","e">>), Lit(<<"A","v","e">>), Lit(<<"R","o","a","d">>), Lit(<<"R","d">>),
                  Lit(<<"D","r","i","v","e">>), Lit(<<"D","r">>), Lit(<<"L","a","n","e">>), Lit(<<"L","n">>), Lit(<<"B","o","u","l","e","v","a","r","d">>), Lit(<<"B","l","v","d">>),
                  Lit(<<"C","o","u","r","t">>), Lit(<<"C","t">>), Lit(<<"W","a","y">>), Lit(<<"P","l","a","c","e">>), Lit(<<"P","l">>)>>),
             Star(NotIn({"\n"}))>>),
      Empty) >>

\* re.sub(r'\s+', ' ', s)
CollapseSpace(s) ==
  LET kept == SelectSeq([i \in 1..Len(s) |-> i],
                        LAMBDA i : s[i] \notin Space \/ i = 1 \/ s[i - 1] \notin Space)
  IN [j \in 1..Len(kept) |-> IF s[kept[j]] \in Space THEN " " ELSE s[kept[j]]]

\* re.sub(pattern, '', s) for a pattern anchored at the start of s
StripPrefix(pat, s) ==
  LET m == MatchAt(pat, s, 1) IN IF m.start = 0 THEN s ELSE SubSeq(s, m.end, Len(s))

\* address = re.sub(r'^(Address|Location|Residence)[:\s]+', '', address)
AddressOfMatch(s, m) ==
  LET address == StripPrefix(Pat(Empty, Alt(<<Lit(<<"A","d","d","r","e","s","s">>), Lit(<<"L","o","c","a","t","i","o","n">>),
                                              Lit(<<"R","e","s","i","d","e","n","c","e">>)>>), LabelSep),
                             CollapseSpace(strip(group1(s, m))))
  IN IF Len(address) > 10 THEN Take(address, 200) ELSE None

\* \d{1,2}[/\-]\d{1,2}[/\-]\d{2,4}
NumericDate ==
  Seq_(<<Rep(In(Digit), 1, 2), In({"/", "-"}), Rep(In(Digit), 1, 2), In({"/", "-"}), Rep(In(Digit), 2, 4)>>)

\* [A-Za-z]+\s+\d{1,2},?\s+\d{4}
MonthDayYear ==
  Seq_(<<Plus(In(Letter)), Plus(In(Space)), Rep(In(Digit), 1, 2), Opt(Lit(<<",">>)),
         Plus(In(Space)), Rep(In(Digit), 4, 4)>>)

dob_patterns == <<
  Pat(Seq_(<<Alt(<<Lit(<<"D","a","t","e"," ","o","f"," ","B","i","r","t","h">>), Lit(<<"D","O","B">>), Lit(<<"B","i","r","t","h"," ","D","a","t","e">>), Lit(<<"B","o","r","n">>),
                   Lit(<<"B","i","r","t","h","d","a","y">>)>>), LabelSep>>), NumericDate, Empty),
  Pat(Seq_(<<Alt(<<Lit(<<"D","a","t","e"," ","o","f"," ","B","i","r","t","h">>), Lit(<<"D","O","B">>), Lit(<<"B","i","r","t","h"," ","D","a","t","e">>)>>), LabelSep>>),
      MonthDayYear, Empty),
  Pat(Seq_(<<Alt(<<Lit(<<"D","a","t","e"," ","o","f"," ","B","i","r","t","h">>), Lit(<<"D","O","B">>)>>), LabelSep>>),
      Seq_(<<Rep(In(Digit), 1, 2), Plus(In(Space)), Plus(In(Letter)), Plus(In(Space)),
             Rep(In(Digit), 4, 4)>>),
      Empty) >>

MinBirthYear == 1900

MaxBirthYear == 2010

\* no range check on the year
AnyBirthYear(year) == TRUE

ReasonableBirthYear(year) == MinBirthYear <= year /\ year <= MaxBirthYear

\* lines 163-174: the date when its year, re.search(r'(\d{4})', dob) or the third
\* part of dob.split('/'), is a reasonable birth year
DobOfMatch(s, m) ==
  LET dob == strip(group1(s, m))
      year_match == re_search(Pat(Empty, Rep(In(Digit), 4, 4), Empty), dob)
      parts == SplitOn(dob, {"/"})
  IN IF year_match.start # 0
     THEN IF ReasonableBirthYear(int(group1(dob, year_match))) THEN dob ELSE None
     ELSE IF Len(parts) = 3 /\ isdigit(parts[3]) /\ ReasonableBirthYear(int(parts[3]))
     THEN dob
     ELSE None


\* [A-Za-z0-9\s&.,\-]+
CompanyChars == Plus(In(Letter \cup Digit \cup Space \cup {"&", ".", ",", "-"}))

company_patterns == <<
  Pat(Seq_(<<Alt(<<Lit(<<"C","o","m","p","a","n","y">>), Lit(<<"E","m","p","l","o","y","e","r">>), Lit(<<"O","r","g","a","n","i","z","a","t","i","o","n">>),
                   Lit(<<"O","r","g","a","n","i","z","a","t","i","o","n"," ","N","a","m","e">>), Lit(<<"C","o","m","p","a","n","y"," ","N","a","m","e">>), Lit(<<"E","m","p","l","o","y","e","r"," ","N","a","m","e">>)>>),
             LabelSep>>), CompanyChars, Empty),
  Pat(Seq_(<<Alt(<<Lit(<<"W","o","r","k","s"," ","a","t">>), Lit(<<"E","m","p","l","o","y","e","d"," ","a","t">>), Lit(<<"W","o","r","k","s"," ","f","o","r">>)>>), LabelSep>>),
      CompanyChars, Empty) >>

CompanyOfMatch(s, m) ==
  LET company == Take(strip(SplitOn(strip(group1(s, m)), {"\n"})[1]), 100)
  IN IF Len(company) > 2 THEN company ELSE None


\* [A-Za-z\s&/\-]+
TitleChars == Plus(In(Letter \cup Space \cup {"&", "/", "-"}))

job_title_patterns == <<
  Pat(Seq_(<<Alt(<<Lit(<<"J","o","b"," ","T","i","t","l","e">>), Lit(<<"P","o","s","i","t","i","o","n">>), Lit(<<"D","e","s","i","g","n","a","t","i","o","n">>), Lit(<<"T","i","t","l","e">>),
                   Lit(<<"R","o","l","e">>)>>), LabelSep>>), TitleChars, Empty),
  Pat(Seq_(<<Alt(<<Lit(<<"W","o","r","k","s"," ","a","s">>), Lit(<<"P","o","s","i","t","i","o","n"," ","i","s">>), Lit(<<"T","i","t","l","e"," ","i","s">>)>>), LabelSep>>),
      TitleChars, Empty) >>

\* title = re.sub(r'^(the|a|an)\s+', '', title)
JobTitleOfMatch(s, m) ==
  LET title == StripPrefix(Pat(Empty, Alt(<<Lit(<<"t","h","e">>), Lit(<<"a">>), Lit(<<"a","n">>)>>),
                               Plus(In(Space))),
                           strip(SplitOn(strip(group1(s, m)), {"\n", "\r", ",", ";"})[1]))
  IN IF Len(title) > 2 /\ Len(title) < 100 THEN title ELSE None


\* the validation a field applies to what re.search returned: the value, or None when
\* there is no match or the match is rejected
ValueOfMatch(field, s, m) ==
  CASE m.start = 0 -> None
    [] m.start # 0 /\ field = "phone" -> PhoneOfMatch(s, m)
    [] m.start # 0 /\ field = "address" -> AddressOfMatch(s, m)
    [] m.start # 0 /\ field = "date_of_birth" -> DobOfMatch(s, m)
    [] m.start # 0 /\ field = "company" -> CompanyOfMatch(s, m)
    [] m.start # 0 /\ field = "job_title" -> JobTitleOfMatch(s, m)

\* for pattern in patterns: match = re.search(pattern, text); the first validated value
FirstBySearch(pats, s, field) ==
  FirstValue([i \in 1..Len(pats) |-> ValueOfMatch(field, s, re_search(pats[i], s))])

extract_phone(text) == FirstBySearch(phone_patterns, text, "phone")

extract_address(text) == FirstBySearch(address_patterns, text, "address")

extract_date_of_birth(text) == FirstBySearch(dob_patterns, text, "date_of_birth")

extract_company(text) == FirstBySearch(company_patterns, text, "company")

extract_job_title(text) == FirstBySearch(job_title_patterns, text, "job_title")

date_patterns == <<
  Pat(Seq_(<<Alt(<<Lit(<<"D","a","t","e">>), Lit(<<"I","n","v","o","i","c","e"," ","D","a","t","e">>), Lit(<<"A","p","p","l","i","c","a","t","i","o","n"," ","D","a","t","e">>),
                   Lit(<<"S","u","b","m","i","s","s","i","o","n"," ","D","a","t","e">>), Lit(<<"D","u","e"," ","D","a","t","e">>)>>), LabelSep>>),
      NumericDate, Empty),
  Pat(Seq_(<<Alt(<<Lit(<<"D","a","t","e">>), Lit(<<"I","n","v","o","i","c","e"," ","D","a","t","e">>), Lit(<<"A","p","p","l","i","c","a","t","i","o","n"," ","D","a","t","e">>)>>),
             LabelSep>>), MonthDayYear, Empty),
  Pat(Empty,
      Seq_(<<Rep(In(Digit), 1, 2), In({"/", "-"}), Rep(In(Digit), 1, 2), In({"/", "-"}),
             Rep(In(Digit), 4, 4)>>),
      Empty) >>

\* the first line of group 1 of the match, None when there is no match
DateOfMatch(s, m) ==
  IF m.start = 0 THEN None ELSE strip(SplitOn(strip(group1(s, m)), {"\n", "\r"})[1])

\* for pattern in patterns: the match of the first pattern that matches, which is
\* returned without validation
FirstMatchBySearch(pats, s) == FirstHit([i \in 1..Len(pats) |-> re_search(pats[i], s)])

extract_date(text) == DateOfMatch(text, FirstMatchBySearch(date_patterns, text))

\* [\d,]+\.?\d*
AmountNumber == Seq_(<<Plus(In(Digit \cup {","})), Opt(Lit(<<".">>)), Star(In(Digit))>>)

amount_patterns == <<
  Pat(Seq_(<<Alt(<<Lit(<<"A","m","o","u","n","t">>), Lit(<<"T","o","t","a","l">>), Lit(<<"P","r","i","c","e">>), Lit(<<"C","o","s","t">>), Lit(<<"F","e","e">>),
                   Lit(<<"P","a","y","m","e","n","t">>)>>), Star(In({":"} \cup Space)), Opt(Lit(<<"$">>))>>),
      AmountNumber, Empty),
  Pat(Lit(<<"$">>), AmountNumber, Empty),
  Pat(Empty, AmountNumber,
      Seq_(<<Star(In(Space)), Alt(<<Lit(<<"U","S","D">>), Lit(<<"d","o","l","l","a","r","s">>), Lit(<<"D","o","l","l","a","r","s">>)>>)>>)) >>

\* match.group(1).strip(), None when there is no match
StrippedGroup(s, m) == IF m.start = 0 THEN None ELSE strip(group1(s, m))

extract_amount(text) == StrippedGroup(text, FirstMatchBySearch(amount_patterns, text))

id_number_patterns == <<
  Pat(Seq_(<<Alt(<<Lit(<<"I","D">>), Lit(<<"I","D"," ","N","u","m","b","e","r">>), Lit(<<"S","S","N">>), Lit(<<"S","o","c","i","a","l"," ","S","e","c","u","r","i","t","y">>),
                   Lit(<<"P","a","s","s","p","o","r","t"," ","N","u","m","b","e","r">>), Lit(<<"L","i","c","e","n","s","e"," ","N","u","m","b","e","r">>)>>), LabelSep>>),
      Plus(In(Letter \cup Digit \cup {"-"})), Empty),
  Pat(Wb, Seq_(<<Rep(In(Letter), 1, 2), Rep(In(Digit), 6, -1)>>), Wb),
  Pat(Wb,
      Seq_(<<Rep(In(Digit), 3, 3), Lit(<<"-">>), Rep(In(Digit), 2, 2), Lit(<<"-">>),
             Rep(In(Digit), 4, 4)>>),
      Wb) >>

extract_id_number(text) == StrippedGroup(text, FirstMatchBySearch(id_number_patterns, text))

\* (?:Website|URL|Web|Site)[:\s]+(https?://[^\s]+|www\.[^\s]+|
\* [a-z0-9-]+\.[a-z]{2,}(?:\.[a-z]{2,})?)
website_pattern ==
  Pat(Seq_(<<Alt(<<Lit(<<"W","e","b","s","i","t","e">>), Lit(<<"U","R","L">>), Lit(<<"W","e","b">>), Lit(<<"S","i","t","e">>)>>), LabelSep>>),
      Alt(<<Seq_(<<Lit(<<"h","t","t","p">>), Opt(Lit(<<"s">>)), Lit(<<":","/","/">>), Plus(NotIn(Space))>>),
            Seq_(<<Lit(<<"w","w","w",".">>), Plus(NotIn(Space))>>),
            Seq_(<<Plus(In(Letter \cup Digit \cup {"-"})), Lit(<<".">>), Rep(In(Letter), 2, -1),
                   Opt(Seq_(<<Lit(<<".">>), Rep(In(Letter), 2, -1)>>))>>)>>),
      Empty)

extract_website(text) ==
  LET url == StrippedGroup(text, re_search(website_pattern, text))
  IN IF url = None \/ StartsWith(url, <<"h","t","t","p">>) THEN url ELSE <<"h","t","t","p","s",":","/","/">> \o url

\* the patterns with the labeled one first
zip_code_patterns_labeled_first == <<
  Pat(Seq_(<<Alt(<<Lit(<<"Z","I","P">>), Lit(<<"P","o","s","t","a","l"," ","C","o","d","e">>), Lit(<<"P","o","s","t","c","o","d","e">>)>>), LabelSep>>),
      Rep(In(Digit), 5, 10), Empty),
  Pat(Wb, Seq_(<<Rep(In(Digit), 5, 5), Opt(Seq_(<<Lit(<<"-">>), Rep(In(Digit), 4, 4)>>))>>), Wb) >>

zip_code_patterns == <<
  Pat(Wb, Seq_(<<Rep(In(Digit), 5, 5), Opt(Seq_(<<Lit(<<"-">>), Rep(In(Digit), 4, 4)>>))>>), Wb),
  Pat(Seq_(<<Alt(<<Lit(<<"Z","I","P">>), Lit(<<"P","o","s","t","a","l"," ","C","o","d","e">>), Lit(<<"P","o","s","t","c","o","d","e">>)>>), LabelSep>>),
      Rep(In(Digit), 5, 10), Empty) >>

extract_zip_code(text) == StrippedGroup(text, FirstMatchBySearch(zip_code_patterns, text))

\* the dict extract_all returns: every field is a key, None where nothing was found
extract_all(text) ==
  [k \in FieldKeys |->
     CASE k = "name" -> extract_name(text)
       [] k = "email" -> extract_email(text)
       [] k = "phone" -> extract_phone(text)
       [] k = "address" -> extract_address(text)
       [] k = "date_of_birth" -> extract_date_of_birth(text)
       [] k = "company" -> extract_company(text)
       [] k = "job_title" -> extract_job_title(text)
       [] k = "date" -> extract_date(text)
       [] k = "amount" -> extract_amount(text)
       [] k = "id_number" -> extract_id_number(text)
       [] k = "website" -> extract_website(text)
       [] k = "zip_code" -> extract_zip_code(text)]

(***************************************************************************)
(* Values that are not str.  A JSON number is the sequence of its decimal  *)
(* digits behind the tag int; an Optional[int] is a set of at most one     *)
(* integer; a dict is a function on the set of its keys.                   *)
(***************************************************************************)
IntVal(digits) == <<"int">> \o digits

IsInt(v) == v # <<>> /\ v[1] = "int"

IsStr(v) == v = <<>> \/ v[1] \notin {"None", "int"}

\* bool(v): None, "" and 0 are false
Truthy(v) == v # None /\ v # <<>> /\ (IsInt(v) => int(Tail(v)) # 0)

\* str(v)
str(v) == IF IsInt(v) THEN Tail(v) ELSE v

\* {}
EmptyDict == [k \in {} |-> None]

\* d.get(k)
Get(d, k) == IF k \in DOMAIN d THEN d[k] ELSE None

\* {k: v for k, v in d.items() if v is not None}
WithoutNone(d) == [k \in {j \in DOMAIN d : d[j] # None} |-> d[k]]

\* str(n) of a natural number
RECURSIVE str_int(_)
str_int(n) ==
  IF n < 10 THEN <<CHOOSE c \in Digit : DigitVal[c] = n>>
  ELSE str_int(n \div 10) \o str_int(n % 10)

(***************************************************************************)
(* DocumentParser (parser.py).  The files are what the disk holds: the     *)
(* text of a .txt file, the paragraphs of a .docx file, the page texts of  *)
(* a .pdf file (none has tables or images).                                *)
(***************************************************************************)
ContactRecord ==
  <<"F","u","l","l"," ","N","a","m","e",":"," ","J","o","h","n"," ","C","a","r","t","e","r","\n","E","m","a","i","l",":"," ","j","o","h","n",".","c","a","r","t","e","r","@","e","x","a","m","p","l","e",".","c","o","m","\n","P","h","o","n","e",":"," ","5","5","5","-","8","6","7","-","5","3","0","9","\n","A","d","d","r","e","s","s",":"," ","1","2","3"," ","M","a","i","n"," ","S","t","r","e","e","t",","," ","S","p","r","i","n","g","f","i","e","l","d">>

disk ==
  (<<"c","o","n","t","a","c","t",".","t","x","t">> :> [text |-> ContactRecord]) @@
  (<<"s","c","a","n","s","/","p","h","o","n","e",".","P","D","F">> :>
     [pages |-> << <<"N","a","m","e",":"," ","A","n","n"," ","L","e","e","\n","\n"," "," ","P","h","o","n","e",":"," ","5","5","5",".","1","2","3",".","4","5","6","7","\n">>, <<" ","\n">>,
                   <<"Z","i","p"," ","N","i","n","e"," ","Z","e","r","o"," ","Z","e","r","o"," ","Z","e","r","o"," ","O","n","e","\n","C","e","l","l"," ","5","5","5"," ","1","2","3"," ","4","5","6","7","\n">> >>]) @@
  (<<"s","u","r","v","e","y",".","t","x","t">> :> [text |-> <<"S","u","b","s","c","r","i","b","e","d",":","\n","\n","N","o","\n">>]) @@
  (<<"b","l","a","n","k",".","t","x","t">> :> [text |-> <<" ","\n">>]) @@
  (<<"e","m","p","t","y",".","t","x","t">> :> [text |-> <<>>]) @@
  (<<"p","h","o","t","o",".","p","n","g">> :> [text |-> <<"P","N","G">>])

Files == DOMAIN disk

\* os.path.splitext(file_path)[1].lower()
file_extension(file_path) ==
  LET dots == {i \in 1..Len(file_path) : file_path[i] = "."}
      seps == {i \in 1..Len(file_path) : file_path[i] = "/"}
      base == IF seps = {} THEN 1 ELSE MaxOf(seps) + 1
  IN IF dots = {} \/ MaxOf(dots) <= base THEN <<>>
     ELSE lower(SubSeq(file_path, MaxOf(dots), Len(file_path)))

\* _extract_from_docx: the paragraphs that are not blank, one per line
extract_from_docx(paragraphs) ==
  join(<<"\n">>, SelectSeq(paragraphs, LAMBDA p : strip(p) # <<>>))

\* _extract_from_pdf: the pages that have text, each behind its marker
RECURSIVE text_parts(_, _)
text_parts(pages, page_num) ==
  IF page_num > Len(pages) THEN <<>>
  ELSE (IF strip(pages[page_num]) # <<>>
        THEN << <<"-","-","-"," ","P","a","g","e"," ">> \o str_int(page_num) \o <<" ","-","-","-","\n">> \o pages[page_num] >>
        ELSE <<>>) \o text_parts(pages, page_num + 1)

extract_from_pdf(pages) == join(<<"\n","\n">>, text_parts(pages, 1))

\* extract_text: the text of the document, None when it cannot be parsed
extract_text(file_path) ==
  CASE file_extension(file_path) = <<".","d","o","c","x">> -> extract_from_docx(disk[file_path].paragraphs)
    [] file_extension(file_path) = <<".","t","x","t">> -> disk[file_path].text
    [] file_extension(file_path) = <<".","p","d","f">> -> extract_from_pdf(disk[file_path].pages)
    [] OTHER -> None

(***************************************************************************)
(* FormFiller._on_extract, lines 244-268: the structured lines of a text.  *)
(***************************************************************************)
\* ^---\s*Page\s*(\d+)\s*---  (no re.IGNORECASE: Page is matched as written)
page_marker ==
  Pat(Seq_(<<Lit(<<"-","-","-">>), Star(In(Space)), In({"P"}), In({"a"}), In({"g"}), In({"e"}),
             Star(In(Space))>>),
      Plus(In(Digit)),
      Seq_(<<Star(In(Space)), Lit(<<"-","-","-">>)>>))

\* str.splitlines(), without the empty pieces, which the loop skips as blank
splitlines(text) == SelectSeq(SplitOn(text, {"\n", "\r", "\f"}), LAMBDA raw : raw # <<>>)

\* rows whose line counter runs on over the page markers
RECURSIVE StructuredRowsCountingOn(_, _, _, _)
StructuredRowsCountingOn(raws, i, current_page, page_line_counter) ==
  IF i > Len(raws) THEN <<>>
  ELSE IF MatchAt(page_marker, raws[i], 1).start # 0
  THEN StructuredRowsCountingOn(raws, i + 1,
                      {int(group1(raws[i], MatchAt(page_marker, raws[i], 1)))},
                      page_line_counter)
  ELSE IF strip(raws[i]) = <<>>
  THEN StructuredRowsCountingOn(raws, i + 1, current_page, page_line_counter)
  ELSE << [page |-> current_page, line |-> page_line_counter + 1, text |-> strip(raws[i])] >>
       \o StructuredRowsCountingOn(raws, i + 1, current_page, page_line_counter + 1)

\* for raw in text.splitlines(): the rows from raws[i] on
RECURSIVE StructuredRows(_, _, _, _)
StructuredRows(raws, i, current_page, page_line_counter) ==
  IF i > Len(raws) THEN <<>>
  ELSE IF MatchAt(page_marker, raws[i], 1).start # 0
  THEN StructuredRows(raws, i + 1,
                      {int(group1(raws[i], MatchAt(page_marker, raws[i], 1)))}, 0)
  ELSE IF strip(raws[i]) = <<>>
  THEN StructuredRows(raws, i + 1, current_page, page_line_counter)
  ELSE << [page |-> current_page, line |-> page_line_counter + 1, text |-> strip(raws[i])] >>
       \o StructuredRows(raws, i + 1, current_page, page_line_counter + 1)

structured_lines_of(text) == StructuredRows(splitlines(text), 1, {}, 0)

(***************************************************************************)
(* AIExtractor (extractor.py).  The model's answer is an input: resp.kind  *)
(* is "json" when the answer to the numbered prompt parses, with its       *)
(* "fields" and "source_lines" objects; "not_json" when json.loads rejects *)
(* it; "error" when the call raises.  resp.retry is what the second call,  *)
(* self.extract_all(text), returns: the fields it found, {} on any error.  *)
(***************************************************************************)
NotFound == <<"N","o","t"," ","f","o","u","n","d">>

\* for line in lines: if needle in line.lower(): source_line = line.strip(); break
FirstLineWith(lines, needle, otherwise) ==
  LET hits == {i \in 1..Len(lines) : Contains(lower(lines[i]), needle)}
  IN IF hits = {} THEN otherwise ELSE strip(lines[MinOf(hits)])

\* ' '.join(value.split()[:n]).lower()
search_term(value, n) == lower(join(<<" ">>, Take(split(value), n)))

\* line 220: not source_line or source_line.strip() == ""
Blank(hint) == ~ Truthy(hint) \/ (IsStr(hint) /\ strip(hint) = <<>>)

\* lines 217-235: the source line of one field of a parsed answer
SourceLineOfField(value, hint, lines) ==
  LET blank == Blank(hint)
      by_value == IF blank /\ Truthy(value)
                  THEN FirstLineWith(lines, lower(strip(value)), hint)
                  ELSE hint
  IN IF blank /\ ~ Truthy(by_value) /\ Truthy(value) /\ split(value) # <<>>
     THEN FirstLineWith(lines, search_term(value, 3), by_value)
     ELSE by_value

\* lines 220 and 223: .strip() of a number raises AttributeError
FieldRaises(value, hint) ==
  \/ Truthy(hint) /\ ~ IsStr(hint)
  \/ Blank(hint) /\ Truthy(value) /\ ~ IsStr(value)

\* lines 206-243: the values and the source lines of a parsed answer
MetadataOfAnswer(fields, source_lines, lines) ==
  LET extracted_data == WithoutNone(fields)
  IN [data |-> extracted_data,
      meta |-> [key \in {k \in DOMAIN extracted_data : Truthy(extracted_data[k])} |->
                  LET source_line == SourceLineOfField(extracted_data[key],
                                                       Get(source_lines, key), lines)
                  IN IF Truthy(source_line) /\ strip(source_line) # <<>>
                     THEN source_line ELSE NotFound]]

\* a fallback that discards the values of the second call
MetadataOfNothing(extracted_data, lines, words) == [data |-> EmptyDict, meta |-> EmptyDict]

\* lines 248-280 (words = 2) and 285-304 (words = 0): sources found by searching the text
MetadataBySearch(extracted_data, lines, words) ==
  [data |-> extracted_data,
   meta |-> [key \in {k \in DOMAIN extracted_data : Truthy(extracted_data[k])} |->
               LET value == extracted_data[key]
                   exact == FirstLineWith(lines, lower(strip(value)), None)
                   source_line == IF ~ Truthy(exact) /\ words > 0 /\ split(value) # <<>>
                                  THEN FirstLineWith(lines, search_term(value, words), exact)
                                  ELSE exact
               IN IF Truthy(source_line) THEN source_line ELSE NotFound]]

extract_all_with_metadata(text, resp) ==
  LET lines == SplitOn(text, {"\n"})
  IN IF resp.kind = "json"
        /\ \A k \in DOMAIN WithoutNone(resp.fields) :
              ~ FieldRaises(resp.fields[k], Get(resp.source_lines, k))
     THEN MetadataOfAnswer(resp.fields, resp.source_lines, lines)
     ELSE MetadataBySearch(resp.retry, lines, IF resp.kind = "not_json" THEN 2 ELSE 0)

(***************************************************************************)
(* The document text the AIExtractor puts in its prompts.                  *)
(***************************************************************************)
TextLimit == 8000

\* lines 93-94 and 318-319: the text extract_all and extract_custom send to the model,
\* text[:8000] + "\n\n[Text truncated...]" when it is long
truncated(text) ==
  IF Len(text) > TextLimit
  THEN SubSeq(text, 1, TextLimit) \o <<"\n","\n","[","T","e","x","t"," ","t","r","u","n","c","a","t","e","d",".",".",".","]">>
  ELSE text

\* line 139: "\n".join([f"{idx+1}: {line}" for idx, line in enumerate(lines)])
numbered_text(lines) ==
  join(<<"\n">>, [idx \in 1..Len(lines) |-> str_int(idx) \o <<":"," ">> \o lines[idx]])

\* lines 130-139 and 188-191: the text extract_all_with_metadata sends to the model
prompt_text_with_metadata(text) == numbered_text(SplitOn(text, {"\n"}))

\* whether extract_all_with_metadata calls self.extract_all(text): lines 245-249, 282-286
Retried(resp) ==
  \/ resp.kind # "json"
  \/ \E k \in DOMAIN WithoutNone(resp.fields) :
        FieldRaises(resp.fields[k], Get(resp.source_lines, k))

\* the texts of the prompts of one extract_all_with_metadata call, in order
prompts_of(text, resp) ==
  <<prompt_text_with_metadata(text)>> \o
  (IF Retried(resp) THEN <<truncated(text)>> ELSE <<>>)

(***************************************************************************)
(* FormFiller (form.py): source resolution.  A row is named by its index   *)
(* in structured_lines; 0 is no row.                                       *)
(***************************************************************************)
\* the least index of a set of row indexes, 0 when there is none
FirstRow(hits) == IF hits = {} THEN 0 ELSE MinOf(hits)

\* the row of the first step that found one, 0 when none did
FirstRowOf(steps) ==
  IF \A i \in DOMAIN steps : steps[i] = 0 THEN 0
  ELSE steps[MinOf({i \in DOMAIN steps : steps[i] # 0})]

\* a resolver of candidates that takes the first row that holds the candidate or that
\* it holds, equal or not
resolve_candidate_by_substring(rows, candidate) ==
  IF candidate = <<>> THEN 0
  ELSE FirstRow({i \in 1..Len(rows) :
                   \/ Contains(lower(rows[i].text), lower(candidate))
                   \/ Contains(lower(candidate), lower(rows[i].text))})

\* lines 341-354: the row whose text is the candidate, else the first row that holds
\* it or that it holds
resolve_candidate(rows, candidate) ==
  IF candidate = <<>> THEN 0
  ELSE FirstRowOf(<<
         FirstRow({i \in 1..Len(rows) : lower(candidate) = lower(rows[i].text)}),
         FirstRow({i \in 1..Len(rows) :
                     \/ Contains(lower(rows[i].text), lower(candidate))
                     \/ Contains(lower(candidate), lower(rows[i].text))}) >>)

\* lines 331-354: the row the AI's source_line names; the candidate is
\* re.sub(r'^\s*\d+:\s*', '', str(source_entry)).strip()
resolve_source_entry(rows, source_entry) ==
  IF ~ Truthy(source_entry) THEN 0
  ELSE IF IsInt(source_entry) \/ isdigit(strip(source_entry))
  THEN LET idx == int(IF IsInt(source_entry) THEN Tail(source_entry)
                      ELSE strip(source_entry)) - 1
       IN IF 0 <= idx /\ idx < Len(rows) THEN idx + 1 ELSE 0
  ELSE resolve_candidate(rows,
         strip(StripPrefix(Pat(Seq_(<<Star(In(Space)), Plus(In(Digit)), Lit(<<":">>),
                                      Star(In(Space))>>), Empty, Empty),
                           source_entry)))

digit_word_map ==
  (<<"z","e","r","o">> :> "0") @@ (<<"o","n","e">> :> "1") @@ (<<"t","w","o">> :> "2") @@ (<<"t","h","r","e","e">> :> "3") @@
  (<<"f","o","u","r">> :> "4") @@ (<<"f","i","v","e">> :> "5") @@ (<<"s","i","x">> :> "6") @@ (<<"s","e","v","e","n">> :> "7") @@
  (<<"e","i","g","h","t">> :> "8") @@ (<<"n","i","n","e">> :> "9")

\* ''.join(digit_word_map.get(w.lower(), '') for w in words), the words being
\* re.findall(r"[A-Za-z]+", row['text'])
RECURSIVE converted(_)
converted(words) ==
  IF words = <<>> THEN <<>>
  ELSE (IF lower(words[1]) \in DOMAIN digit_word_map
        THEN <<digit_word_map[lower(words[1])]>> ELSE <<>>) \o converted(Tail(words))

\* a resolver that looks for the value as written only
find_by_text_only(rows, value) ==
  FirstRow({i \in 1..Len(rows) : Contains(lower(rows[i].text), lower(strip(value)))})

\* a resolver that looks for the digits of the value before the value as it is written
find_source_row_digits_first(rows, value) ==
  LET digits_only == Keep(value, Digit)
      by_digits == {i \in 1..Len(rows) : Contains(Keep(rows[i].text, Digit), digits_only)}
  IN IF digits_only # <<>> /\ by_digits # {} THEN MinOf(by_digits)
     ELSE FirstRow({i \in 1..Len(rows) : Contains(lower(rows[i].text), lower(strip(value)))})

\* _find_source_row_for_value for a str value
find_source_row_for_value(rows, value) ==
  LET lowered == lower(strip(value))
      digits_only == Keep(value, Digit)
  IN IF rows = <<>> \/ value = <<>> THEN 0
     ELSE FirstRowOf(<<
       FirstRow({i \in 1..Len(rows) : Contains(lower(rows[i].text), lowered)}),
       IF digits_only = <<>> THEN 0
       ELSE FirstRow({i \in 1..Len(rows) :
                        Contains(Keep(rows[i].text, Digit), digits_only)}),
       IF digits_only = <<>> THEN 0
       ELSE FirstRow({i \in 1..Len(rows) :
                        LET spelled == converted(re_findall(Pat(Empty, Plus(In(Letter)), Empty),
                                                            rows[i].text))
                        IN spelled # <<>> /\ Contains(spelled, digits_only)}),
       IF split(strip(value)) = <<>> THEN 0
       ELSE FirstRow({i \in 1..Len(rows) :
                        Contains(lower(rows[i].text), search_term(value, 3))}) >>)

field_labels ==
  ("name" :> <<"N","a","m","e">>) @@ ("email" :> <<"E","m","a","i","l">>) @@ ("phone" :> <<"P","h","o","n","e">>) @@
  ("address" :> <<"A","d","d","r","e","s","s">>) @@ ("date_of_birth" :> <<"D","a","t","e"," ","o","f"," ","B","i","r","t","h">>) @@
  ("company" :> <<"C","o","m","p","a","n","y">>) @@ ("job_title" :> <<"J","o","b"," ","T","i","t","l","e">>) @@ ("date" :> <<"D","a","t","e">>) @@
  ("amount" :> <<"A","m","o","u","n","t">>) @@ ("id_number" :> <<"I","D"," ","N","u","m","b","e","r">>) @@ ("website" :> <<"W","e","b","s","i","t","e">>) @@
  ("zip_code" :> <<"Z","I","P"," ","C","o","d","e">>)

\* lines 331-359: the row of one field: the AI's source line first, then the value
resolved_row(rows, value, source_entry) ==
  FirstRowOf(<<resolve_source_entry(rows, source_entry),
               find_source_row_for_value(rows, value)>>)

\* a store that takes numbers as they come
StoreNeverRaises(rows, extracted_data, ai_metadata) == FALSE

\* line 392 on a number: value.strip() raises AttributeError
StoreRaises(rows, extracted_data, ai_metadata) ==
  \E key \in DOMAIN extracted_data :
     /\ Truthy(extracted_data[key]) /\ ~ IsStr(extracted_data[key])
     /\ resolve_source_entry(rows, Get(ai_metadata, key)) = 0
     /\ rows # <<>>

\* lines 361-377: the record of one field, resolved being its row, 0 when it has none
metadata_record(rows, key, value, resolved) ==
  [value |-> value,
   source_page |-> IF resolved # 0 THEN rows[resolved].page ELSE {},
   source_line_no |-> IF resolved # 0 THEN {rows[resolved].line} ELSE {},
   source_text |-> IF resolved # 0 THEN rows[resolved].text ELSE NotFound,
   field_name |-> field_labels[key]]

\* a store that keeps the source line it is given as it is
store_source_lines_verbatim(rows, extracted_data, ai_metadata) ==
  [key \in {k \in DOMAIN extracted_data : Truthy(extracted_data[k])} |->
     [value |-> extracted_data[key], source_page |-> {}, source_line_no |-> {},
      source_text |-> Get(ai_metadata, key), field_name |-> field_labels[key]]]

\* _store_ai_extraction_metadata: the new extraction_metadata
store_ai_extraction_metadata(rows, extracted_data, ai_metadata) ==
  [key \in {k \in DOMAIN extracted_data : Truthy(extracted_data[k])} |->
     metadata_record(rows, key, extracted_data[key],
                     resolved_row(rows, extracted_data[key], Get(ai_metadata, key)))]

\* _fill_form: what the entries hold afterwards
fill_form(data) ==
  [key \in FieldKeys |-> IF Truthy(Get(data, key)) THEN str(Get(data, key)) ELSE <<>>]

(***************************************************************************)
(* State.  rx_text and rx_returns are one RegexExtractor: its text and the *)
(* mappings its extract_all calls have returned so far.  The others are    *)
(* the FormFiller: its fields, and of the extraction the form shows the    *)
(* branch _on_extract took (extraction_path, "none" when the form shows    *)
(* none), the values it filled the form with (extracted_data) and the      *)
(* source lines the AI extractor gave for them (ai_metadata).  The status  *)
(* bar, the file label and the details panel only display these and are    *)
(* left out.  What a call did besides: the dialog the latest handler       *)
(* showed (message_box, "none" when it showed none), the exception that    *)
(* escaped the latest call (raised, "none" when it returned), and of the   *)
(* extraction the form shows the model's answer (ai_response, NotAsked     *)
(* when it was not asked),   the document texts of the prompts sent to the *)
(* model (llm_prompts) and the number of RegexExtractor.extract_all runs   *)
(* (pattern_runs).                                                         *)
(***************************************************************************)
VARIABLES rx_text, rx_returns,
          selected_file, extracted_text, structured_lines, extraction_metadata,
          entries, checkboxes, use_ai_var, extraction_path, extracted_data, ai_metadata,
          message_box, raised, ai_response, llm_prompts, pattern_runs

rx_vars == <<rx_text, rx_returns>>

form_vars == <<selected_file, extracted_text, structured_lines, extraction_metadata,
               entries, checkboxes, use_ai_var, extraction_path, extracted_data, ai_metadata>>

call_vars == <<message_box, raised, ai_response, llm_prompts, pattern_runs>>

vars == <<rx_vars, form_vars, call_vars>>

\* the answer of a model that was not asked
NotAsked ==
  [kind |-> "none", fields |-> EmptyDict, source_lines |-> EmptyDict, retry |-> EmptyDict]

\* FormFiller.__init__ and _create_ui
FormInit ==
  /\ selected_file = None
  /\ extracted_text = None
  /\ structured_lines = <<>>
  /\ extraction_metadata = EmptyDict
  /\ entries = [key \in FieldKeys |-> <<>>]
  /\ checkboxes = [key \in FieldKeys |-> FALSE]
  /\ use_ai_var \in BOOLEAN
  /\ extraction_path = "none"
  /\ extracted_data = EmptyDict
  /\ ai_metadata = EmptyDict
  /\ message_box = "none"
  /\ raised = "none"
  /\ ai_response = NotAsked
  /\ llm_prompts = <<>>
  /\ pattern_runs = 0

(***************************************************************************)
(* The texts a RegexExtractor is built with: up to MaxChunks different    *)
(* chunks of one topic, one per line, the four-line contact record, and a  *)
(* text of eleven lines.                                                   *)
(***************************************************************************)
MaxChunks == 2

MaxCalls == 2

NameChunks == <<
  <<"B","o","b"," ","J","o","n","e","s">>,
  <<"F","u","l","l"," ","N","a","m","e",":"," ","J","a","n","e"," ","S","m","i","t","h">>,
  <<"F","u","l","l"," ","N","a","m","e",":"," ","J"," ","S","m","i","t","h">>,
  <<"F","u","l","l"," ","N","a","m","e",":"," ","J","a","n","e"," ","S","m","i","t","h"," ","i","s"," ","h","e","r","e">>,
  <<"f","u","l","l"," ","n","a","m","e",":"," ","a","n","n"," ","l","e","e">>,
  <<"D","e","a","r"," ","M","a","r","y"," ","L","e","e",",">> >>

BirthChunks == <<
  <<"D","a","t","e"," ","o","f"," ","B","i","r","t","h",":"," ","0","1","/","0","2","/","2","0","5","0">>,
  <<"D","a","t","e"," ","o","f"," ","B","i","r","t","h",":"," ","0","1","/","0","2","/","1","9","8","5">>,
  <<"D","O","B",":"," ","1","2","/","3","1","/","1","9","0","0">>,
  <<"B","o","r","n"," ","1","-","2","-","2","0","1","0">>,
  <<"B","i","r","t","h","d","a","y",":"," ","0","1","/","0","2","/","2","0","1","1">>,
  <<"D","O","B",":"," ","0","1","/","0","2","/","1","8","9","9">>,
  <<"D","O","B",":"," ","M","a","r","c","h"," ","3",","," ","1","9","9","0">>,
  <<"I","n","v","o","i","c","e"," ","D","a","t","e",":"," ","0","3","/","0","4","/","1","9","9","9">> >>

EmailChunks == <<
  <<"b","i","l","l","i","n","g","@","a","c","m","e",".","c","o","m">>,
  <<"j","a","n","e",".","d","o","e","@","a","c","m","e",".","c","o","m">>,
  <<"C","o","n","t","a","c","t"," ","b","o","b","@","m","a","i","l",".","o","r","g"," ","o","r"," ","S","u","p","p","o","r","t","@","a","c","m","e",".","c","o","m">>,
  <<"n","o","r","e","p","l","y","@","x",".","i","o",","," ","i","n","f","o","@","x",".","i","o">>,
  <<"n","o"," ","e","m","a","i","l"," ","h","e","r","e">> >>

PhoneChunks == <<
  <<"P","h","o","n","e",":"," ","+","1","2","3"," ","4","5","6"," ","7","8","9">>,
  <<"T","e","l",":"," ","5","5","5","-","8","6","7","-","5","3","0","9">>,
  <<"C","a","l","l"," ","5","5","5"," ","1","2","3","4">>,
  <<"+","4","4"," ","2","0"," ","7","9","4","6"," ","0","9","5","8">> >>

ZipChunks == <<
  <<"Z","I","P",":"," ","9","0","0","0","1">>,
  <<"P","o","s","t","a","l"," ","C","o","d","e",":"," ","1","2","3","4","5","6","7">>,
  <<"r","e","f"," ","1","2","3","4","5","-","6","7","8","9">>,
  <<"o","r","d","e","r"," ","1","2","3","4","5","6">>,
  <<"b","o","x"," ","5","4","3","2","1"," ","x">> >>

\* ten empty lines and a name on the eleventh
NameOnEleventhLine == [i \in 1..NameScanLines |-> "\n"] \o <<" ","B","o","b"," ","J","o","n","e","s">>

\* up to MaxChunks different chunks of one topic, joined by newlines; the contact record
Texts ==
  UNION {{join(<<"\n">>, [i \in 1..n |-> topic[pick[i]]]) :
            pick \in {f \in [1..n -> 1..Len(topic)] : \A i, j \in 1..n : f[i] = f[j] => i = j}} :
           n \in 0..MaxChunks,
           topic \in {NameChunks, BirthChunks, EmailChunks, PhoneChunks, ZipChunks}}
  \cup {ContactRecord, NameOnEleventhLine}

\* RegexExtractor(text), beside a form nobody touches
RxInit ==
  /\ rx_text \in Texts
  /\ rx_returns = <<>>
  /\ FormInit
  /\ use_ai_var = TRUE

\* a call that uses the text up
RegexExtractAllConsuming ==
  /\ Len(rx_returns) < MaxCalls
  /\ rx_returns' = Append(rx_returns, extract_all(rx_text))
  /\ rx_text' = <<>>
  /\ UNCHANGED <<form_vars, call_vars>>

\* extractor.extract_all()
RegexExtractAll ==
  /\ Len(rx_returns) < MaxCalls
  /\ rx_returns' = Append(rx_returns, extract_all(rx_text))
  /\ UNCHANGED rx_text
  /\ UNCHANGED <<form_vars, call_vars>>

SpecRegex == RxInit /\ [][RegexExtractAll]_vars

(***************************************************************************)
(* The texts _on_extract builds the structured lines of: up to MaxLines    *)
(* lines, each a page marker, a blank line, a line of text or a look-alike *)
(* of a marker.                                                            *)
(***************************************************************************)
MaxLines == 4

LineChunks == <<
  <<"-","-","-"," ","P","a","g","e"," ","1"," ","-","-","-">>,
  <<"-","-","-","P","a","g","e"," "," ","1","2","-","-","-"," "," ","e","n","d"," ","o","f"," ","h","e","a","d","e","r">>,
  <<>>,
  <<" "," ","\t">>,
  <<" "," ","A","n","n"," ","L","e","e"," ">>,
  <<" ","-","-","-"," ","P","a","g","e"," ","3"," ","-","-","-">>,
  <<"-","-","-"," ","p","a","g","e"," ","4"," ","-","-","-">> >>

LineTexts ==
  UNION {{join(<<"\n">>, [i \in 1..n |-> LineChunks[pick[i]]]) :
            pick \in [1..n -> 1..Len(LineChunks)]} : n \in 1..MaxLines}

\* _on_extract, lines 244-268, on the text the parser returned for the first document
BuildStructuredLines(texts) ==
  \E text \in texts :
    /\ extracted_text = None
    /\ extracted_text' = text
    /\ structured_lines' = structured_lines_of(text)
    /\ UNCHANGED <<selected_file, extraction_metadata, entries, checkboxes, use_ai_var,
                   extraction_path, extracted_data, ai_metadata>>
    /\ UNCHANGED <<rx_vars, call_vars>>

(***************************************************************************)
(* The FormFiller session.  What the language model answers is an input   *)
(* of _on_extract, and so is whether GOOGLE_API_KEY is set.                *)
(***************************************************************************)
Json(fields, source_lines) ==
  [kind |-> "json", fields |-> fields, source_lines |-> source_lines,
   retry |-> ("name" :> <<"A","n","n"," ","L","e","e">>)]

NotJson(retry) ==
  [kind |-> "not_json", fields |-> EmptyDict, source_lines |-> EmptyDict, retry |-> retry]

Failed(retry) ==
  [kind |-> "error", fields |-> EmptyDict, source_lines |-> EmptyDict, retry |-> retry]

\* one field of an answer, and the source lines the model may give for it
AnswerFields == {
  [key |-> "name", value |-> <<"J","o","h","n"," ","C","a","r","t","e","r">>],
  [key |-> "name", value |-> <<"J","o","n"," ","C","a","r","t","e","r">>],
  [key |-> "phone", value |-> <<"(","5","5","5",")"," ","1","2","3","-","4","5","6","7">>],
  [key |-> "zip_code", value |-> <<"9","0","0","0","1">>],
  [key |-> "zip_code", value |-> IntVal(<<"9","0","0","0","1">>)],
  [key |-> "amount", value |-> IntVal(<<"0">>)],
  [key |-> "address", value |-> <<"1","2","3"," ","M","a","i","n"," ","S","t","r","e","e","t"," ","A","p","t"," ","4">>] }

AnswerSourceLines(value) ==
  IF value \in {<<"J","o","n"," ","C","a","r","t","e","r">>, <<"(","5","5","5",")"," ","1","2","3","-","4","5","6","7">>}
  THEN {None, <<"2">>, <<"9">>, <<"P","h","o","n","e",":"," ","5","5","5",".","1","2","3",".","4","5","6","7">>, <<"1",":"," ","F","u","l","l"," ","N","a","m","e",":"," ","J","o","h","n"," ","C","a","r","t","e","r">>,
        <<"e","l","s","e","w","h","e","r","e">>, <<" "," ">>, IntVal(<<"2">>)}
  ELSE IF IsInt(value) THEN {None, <<"2">>, <<"9">>}
  ELSE {None, <<"2">>}

Responses ==
  UNION {{Json(f.key :> f.value, IF h = None THEN EmptyDict ELSE f.key :> h) :
            h \in AnswerSourceLines(f.value)} : f \in AnswerFields}
  \cup {Json(("name" :> <<"J","o","h","n"," ","C","a","r","t","e","r">>) @@ ("email" :> <<>>), EmptyDict),
        Json("email" :> <<>>, EmptyDict),
        Json("name" :> None, EmptyDict),
        NotJson(EmptyDict), NotJson("name" :> <<"J","o","h","n"," ","C","a","r","t","e","r"," ","J","r">>),
        NotJson(("name" :> <<"A","n","n"," ","L","e","e">>) @@ ("phone" :> <<"5","5","5"," ","1","2","3"," ","4","5","6","7">>)),
        Failed(EmptyDict), Failed("name" :> <<"J","o","h","n"," ","C","a","r","t","e","r">>)}

\* a fallback that runs the pattern extractor on no text
pattern_results_of_no_text ==
  [f \in {g \in Files : Truthy(extract_text(g))} |-> extract_all(<<>>)]

\* RegexExtractor(text).extract_all() for the text of each document
pattern_results ==
  [f \in {g \in Files : Truthy(extract_text(g))} |-> extract_all(extract_text(f))]

\* parser.extract_text() for each file
document_text == [f \in Files |-> extract_text(f)]

\* the structured lines of each document that has text
document_rows ==
  [f \in {g \in Files : Truthy(extract_text(g))} |-> structured_lines_of(extract_text(f))]

\* lines 278-304 for one answer: the branch taken, the values and source lines of the
\* AI extractor, and the metadata that is stored
ai_outcome(rows, result) ==
  [path |-> IF DOMAIN result.data = {} THEN "regex: no AI results"
            ELSE IF StoreRaises(rows, result.data, result.meta) THEN "regex: AI error"
            ELSE "ai",
   result |-> result,
   records |-> IF DOMAIN result.data = {} \/ StoreRaises(rows, result.data, result.meta)
               THEN EmptyDict
               ELSE store_ai_extraction_metadata(rows, result.data, result.meta)]

\* the AI branch of _on_extract for each document that has text and each answer
ai_outcomes ==
  [f \in {g \in Files : Truthy(extract_text(g))} |->
     [resp \in Responses |->
        ai_outcome(document_rows[f], extract_all_with_metadata(document_text[f], resp))]]

\* the texts of the prompts the model gets for each document and each answer
prompts_sent ==
  [f \in {g \in Files : Truthy(extract_text(g))} |->
     [resp \in Responses \cup {NotAsked} |->
        IF resp = NotAsked THEN <<>> ELSE prompts_of(document_text[f], resp)]]

Init ==
  /\ rx_text = <<>>
  /\ rx_returns = <<>>
  /\ FormInit

\* a handler returns after the dialog it showed, "none" when it showed none
Returned(dialog) ==
  /\ message_box' = dialog
  /\ raised' = "none"
  /\ UNCHANGED <<ai_response, llm_prompts, pattern_runs>>

\* _select_file, with a file chosen in the dialog
SelectFile ==
  \E file_path \in Files :
    /\ selected_file' = file_path
    /\ UNCHANGED <<extracted_text, structured_lines, extraction_metadata, entries,
                   checkboxes, use_ai_var, extraction_path, extracted_data, ai_metadata>>
    /\ Returned("none")
    /\ UNCHANGED rx_vars

\* the user ticks or unticks "Use AI Extraction"
ToggleUseAI ==
  /\ use_ai_var' = ~ use_ai_var
  /\ UNCHANGED <<selected_file, extracted_text, structured_lines, extraction_metadata,
                 entries, checkboxes, extraction_path, extracted_data, ai_metadata>>
  /\ Returned("none")
  /\ UNCHANGED rx_vars

\* the user ticks or unticks the checkbox of a field (of the name field, here)
ToggleCheckbox ==
  \E key \in {"name"} :
    /\ checkboxes' = [checkboxes EXCEPT ![key] = ~ @]
    /\ UNCHANGED <<selected_file, extracted_text, structured_lines, extraction_metadata,
                   entries, use_ai_var, extraction_path, extracted_data, ai_metadata>>
    /\ Returned("none")
    /\ UNCHANGED rx_vars

\* _clear_form
ClearForm ==
  /\ entries' = [key \in FieldKeys |-> <<>>]
  /\ checkboxes' = [key \in FieldKeys |-> FALSE]
  /\ extracted_text' = None
  /\ extraction_metadata' = EmptyDict
  /\ extraction_path' = "none"
  /\ extracted_data' = EmptyDict
  /\ ai_metadata' = EmptyDict
  /\ message_box' = "none"
  /\ raised' = "none"
  /\ ai_response' = NotAsked
  /\ llm_prompts' = <<>>
  /\ pattern_runs' = 0
  /\ UNCHANGED <<selected_file, structured_lines, use_ai_var>>
  /\ UNCHANGED rx_vars

\* an extraction that adds the rows of the new text to the rows it finds
FilledAppendingRows(file_path, path, data, meta, records) ==
  /\ extracted_text' = document_text[file_path]
  /\ structured_lines' = structured_lines \o document_rows[file_path]
  /\ extraction_metadata' = records
  /\ extracted_data' = data
  /\ ai_metadata' = meta
  /\ entries' = fill_form(data)
  /\ checkboxes' = [key \in FieldKeys |-> FALSE]
  /\ extraction_path' = path
  /\ UNCHANGED <<selected_file, use_ai_var>>
  /\ UNCHANGED rx_vars

\* lines 240-268 and 313: the text and its structured lines are kept, the form is filled
Filled(file_path, path, data, meta, records) ==
  /\ extracted_text' = document_text[file_path]
  /\ structured_lines' = document_rows[file_path]
  /\ extraction_metadata' = records
  /\ extracted_data' = data
  /\ ai_metadata' = meta
  /\ entries' = fill_form(data)
  /\ checkboxes' = [key \in FieldKeys |-> FALSE]
  /\ extraction_path' = path
  /\ UNCHANGED <<selected_file, use_ai_var>>
  /\ UNCHANGED rx_vars

\* lines 278-314: what the model was asked and answered (resp, NotAsked when it was
\* not asked), the runs of the pattern extractor, and the dialog at the end
Finished(file_path, resp, runs) ==
  /\ ai_response' = resp
  /\ llm_prompts' = prompts_sent[file_path][resp]
  /\ pattern_runs' = runs
  /\ message_box' = "showinfo"
  /\ raised' = "none"

\* a fallback that leaves the stored metadata as it finds it
FilledByPatternsKeepingMetadata(file_path, path, resp) ==
  /\ Filled(file_path, path, pattern_results[file_path], EmptyDict, extraction_metadata)
  /\ Finished(file_path, resp, 1)

\* lines 287-310: the pattern extractor's values fill the form, no metadata is kept
FilledByPatterns(file_path, path, resp) ==
  /\ Filled(file_path, path, pattern_results[file_path], EmptyDict, EmptyDict)
  /\ Finished(file_path, resp, 1)

\* lines 278-286: the AI extractor's values fill the form, their sources are stored
FilledByAI(file_path, outcome, resp) ==
  /\ Filled(file_path, "ai", outcome.result.data, outcome.result.meta, outcome.records)
  /\ Finished(file_path, resp, 0)

\* an _on_extract that keeps the parser's text before it tests it
OnExtractKeepingTextFirst ==
  \/ /\ selected_file = None
     /\ Returned("showwarning")
     /\ UNCHANGED <<form_vars, rx_vars>>
  \/ /\ selected_file # None
     /\ ~ Truthy(document_text[selected_file])
     /\ extracted_text' = document_text[selected_file]
     /\ structured_lines' = <<>>
     /\ Returned("showerror")
     /\ UNCHANGED <<selected_file, extraction_metadata, entries, checkboxes, use_ai_var,
                    extraction_path, extracted_data, ai_metadata, rx_vars>>
  \/ /\ selected_file # None
     /\ Truthy(document_text[selected_file])
     /\ ~ use_ai_var
     /\ FilledByPatterns(selected_file, "regex", NotAsked)
  \/ /\ selected_file # None
     /\ Truthy(document_text[selected_file])
     /\ use_ai_var
     /\ FilledByPatterns(selected_file, "regex: no API key", NotAsked)
  \/ /\ selected_file # None
     /\ Truthy(document_text[selected_file])
     /\ use_ai_var
     /\ \E resp \in Responses :
          \E outcome \in {ai_outcomes[selected_file][resp]} :
             IF outcome.path = "ai"
             THEN FilledByAI(selected_file, outcome, resp)
             ELSE FilledByPatterns(selected_file, outcome.path, resp)

\* _on_extract
OnExtract ==
  \/ /\ selected_file = None
     /\ Returned("showwarning")
     /\ UNCHANGED <<form_vars, rx_vars>>
  \/ /\ selected_file # None
     /\ ~ Truthy(document_text[selected_file])
     /\ Returned("showerror")
     /\ UNCHANGED <<form_vars, rx_vars>>
  \/ /\ selected_file # None
     /\ Truthy(document_text[selected_file])
     /\ ~ use_ai_var
     /\ FilledByPatterns(selected_file, "regex", NotAsked)
  \/ /\ selected_file # None
     /\ Truthy(document_text[selected_file])
     /\ use_ai_var
     /\ FilledByPatterns(selected_file, "regex: no API key", NotAsked)
  \/ /\ selected_file # None
     /\ Truthy(document_text[selected_file])
     /\ use_ai_var
     /\ \E resp \in Responses :
          \E outcome \in {ai_outcomes[selected_file][resp]} :
             IF outcome.path = "ai"
             THEN FilledByAI(selected_file, outcome, resp)
             ELSE FilledByPatterns(selected_file, outcome.path, resp)

Next == SelectFile \/ ToggleUseAI \/ ToggleCheckbox \/ ClearForm \/ OnExtract

Spec == Init /\ [][Next]_vars

(***************************************************************************)
(* The texts an AIExtractor is called with: texts whose length is around   *)
(* TextLimit, in one line or in lines of LineWidths characters, and the    *)
(* contact record.  A session makes up to MaxInvocations calls.            *)
(***************************************************************************)
MaxInvocations == 2

LineWidths == {0, 40, 1000}

LongText(n, width) ==
  [i \in 1..n |-> IF width > 0 /\ i % width = 0 THEN "\n" ELSE IF i > TextLimit THEN "z" ELSE "a"]

PromptTexts ==
  {LongText(n, width) : n \in {TextLimit - 1, TextLimit, TextLimit + 1, TextLimit + 40},
                        width \in LineWidths}
  \cup {ContactRecord}

\* the text of the prompt of each call, tabulated
prompt_texts ==
  [text \in PromptTexts |->
     [plain |-> truncated(text), numbered |-> prompt_text_with_metadata(text)]]

\* an AIExtractor method is called with text and sends prompts to the model
Invoked(text, prompts) ==
  /\ Len(llm_prompts) < MaxInvocations
  /\ extracted_text \in {None, text}
  /\ extracted_text' = text
  /\ llm_prompts' = llm_prompts \o prompts
  /\ UNCHANGED <<selected_file, structured_lines, extraction_metadata, entries, checkboxes,
                 use_ai_var, extraction_path, extracted_data, ai_metadata>>
  /\ UNCHANGED <<rx_vars, message_box, raised, ai_response, pattern_runs>>

\* extractor.extract_all(text)
ExtractAll ==
  \E text \in PromptTexts : Invoked(text, <<prompt_texts[text].plain>>)

\* extractor.extract_all_with_metadata(text), with the retry through extract_all
ExtractAllWithMetadata ==
  \E text \in PromptTexts : \E retried \in {Retried(resp) : resp \in Responses} :
    Invoked(text, <<prompt_texts[text].numbered>>
                  \o (IF retried THEN <<prompt_texts[text].plain>> ELSE <<>>))

\* extractor.extract_custom(text, fields)
ExtractCustom ==
  \E text \in PromptTexts : Invoked(text, <<prompt_texts[text].plain>>)

SpecPrompt == Init /\ [][ExtractAll \/ ExtractAllWithMetadata \/ ExtractCustom]_vars

SpecLines == Init /\ [][BuildStructuredLines(LineTexts)]_vars

(***************************************************************************)
(* The documents and the answers _store_ai_extraction_metadata is called   *)
(* with: up to MaxRows different lines that hold a value as it is         *)
(* written, its digits, its digits spelled out, its first words, or        *)
(* nothing of it; a field with a string or a number; a source line that    *)
(* is absent, a number, a string of digits, or text.                       *)
(***************************************************************************)
MaxRows == 3

RowTexts == <<
  <<"C","o","d","e"," ","5"," ","5"," ","1"," ","2">>,
  <<"T","e","l"," ","5","5","-","1","2">>,
  <<"f","i","v","e"," ","f","i","v","e"," ","o","n","e"," ","t","w","o">>,
  <<"5"," ","5"," ","1"," ","9">>,
  <<"T","e","l"," ","5","5","-","1","2"," ","e","x","t">>,
  <<"A","n","n"," ","L","e","e">> >>

StoreTexts ==
  UNION {{join(<<"\n">>, [i \in 1..n |-> RowTexts[pick[i]]]) :
            pick \in {f \in [1..n -> 1..Len(RowTexts)] :
                        \A i, j \in 1..n : f[i] = f[j] => i = j}} : n \in 1..MaxRows}

StoreFields == {
  [key |-> "id_number", value |-> <<"5"," ","5"," ","1"," ","2">>],
  [key |-> "id_number", value |-> IntVal(<<"5","5","1","2">>)],
  [key |-> "name", value |-> <<"A","n","n"," ","L","e","e"," ","S","m","i","t","h"," ","J","r">>] }

StoreSourceLines ==
  {None, <<" ","2"," ">>} \cup UNION {{IntVal(str_int(n)), str_int(n)} : n \in 0..(MaxRows + 1)}
  \cup {<<"2",":"," ","t","e","l"," ","5","5","-","1","2">>, <<"T","E","L"," ","5","5","-","1","2">>, <<"5"," ","5"," ","1">>, <<"C","o","d","e"," ","5"," ","5"," ","1"," ","2"," ","(","p","a","g","e"," ","1",")">>, <<"e","l","s","e","w","h","e","r","e">>,
        <<"7",":">>, <<" "," ">>}

\* _store_ai_extraction_metadata(extracted_data, ai_metadata), called by _on_extract
\* with the first answer, of one field; the AttributeError of line 392 leaves the method
StoreAIExtractionMetadata ==
  \E field \in StoreFields : \E source_line \in StoreSourceLines :
    \E data \in {field.key :> field.value} :
      \E meta \in {IF source_line = None THEN EmptyDict ELSE field.key :> source_line} :
        /\ extracted_text # None
        /\ extracted_data = EmptyDict
        /\ extracted_data' = data
        /\ ai_metadata' = meta
        /\ IF StoreRaises(structured_lines, data, meta)
           THEN raised' = "AttributeError" /\ extraction_metadata' = EmptyDict
           ELSE /\ raised' = "none"
                /\ extraction_metadata' = store_ai_extraction_metadata(structured_lines, data, meta)
        /\ UNCHANGED <<selected_file, extracted_text, structured_lines, entries, checkboxes,
                       use_ai_var, extraction_path>>
        /\ UNCHANGED <<rx_vars, message_box, ai_response, llm_prompts, pattern_runs>>

SpecStore == Init /\ [][BuildStructuredLines(StoreTexts) \/ StoreAIExtractionMetadata]_vars

(***************************************************************************)
(* C1.  The mapping extract_all returns holds a key only for a field for   *)
(* which a value was found: no key is mapped to None or to the empty       *)
(* string, and on empty text the mapping has no keys.                      *)
(***************************************************************************)
C1_OnlyFoundFieldsAreKeys ==
  \A i \in 1..Len(rx_returns) :
    /\ \A k \in DOMAIN rx_returns[i] : rx_returns[i][k] # None /\ rx_returns[i][k] # <<>>
    /\ rx_text = <<>> => DOMAIN rx_returns[i] = {}

(***************************************************************************)
(* C2.  On the four-line contact record extract_all finds name, email,     *)
(* phone and address as written there and no value for the other eight     *)
(* fields.                                                                 *)
(***************************************************************************)
ContactRecordFound ==
  ("name" :> <<"J","o","h","n"," ","C","a","r","t","e","r">>) @@ ("email" :> <<"j","o","h","n",".","c","a","r","t","e","r","@","e","x","a","m","p","l","e",".","c","o","m">>) @@
  ("phone" :> <<"5","5","5","-","8","6","7","-","5","3","0","9">>) @@ ("address" :> <<"1","2","3"," ","M","a","i","n"," ","S","t","r","e","e","t",","," ","S","p","r","i","n","g","f","i","e","l","d">>)

C2_ContactRecord ==
  \A i \in 1..Len(rx_returns) :
    rx_text = ContactRecord =>
      \A k \in FieldKeys :
        /\ k \in DOMAIN rx_returns[i]
        /\ rx_returns[i][k] = IF k \in DOMAIN ContactRecordFound
                              THEN ContactRecordFound[k] ELSE None

C2_Witness == rx_text = ContactRecord /\ Len(rx_returns) >= 1

(***************************************************************************)
(* The name written after the first "Full Name" label of t, when the label *)
(* is followed by ": ", a capitalized word of at least `least` letters, a  *)
(* space and another such word; None otherwise.  With `more`, the word     *)
(* that follows the name on the same line, if it has two letters or more,  *)
(* is part of it.                                                          *)
(***************************************************************************)
FullNameLabel == Pat(Empty, Seq_(<<Lit(<<"F","u","l","l">>), Plus(In(Space)), Lit(<<"N","a","m","e">>)>>), Empty)

LettersEnd(t, p) == p + RunLen(In(Letter), t, p, -1)

BlanksEnd(t, p) == p + RunLen(In(Space \ {"\n", "\r"}), t, p, -1)

LabeledName(t, least, more) ==
  LET m == re_search(FullNameLabel, t)
      f == m.end + 2
      fe == LettersEnd(t, f)
      l == fe + 1
      le == LettersEnd(t, l)
      w == BlanksEnd(t, le)
      we == LettersEnd(t, w)
  IN IF /\ m.start # 0
        /\ f <= Len(t) /\ SubSeq(t, m.end, f - 1) = <<":"," ">>
        /\ fe - f >= least /\ t[f] \in Upper
        /\ fe <= Len(t) /\ t[fe] = " "
        /\ le - l >= least /\ t[l] \in Upper
     THEN SubSeq(t, f, le - 1) \o
          (IF more /\ w > le /\ we - w >= 2 THEN <<" ">> \o SubSeq(t, w, we - 1) ELSE <<>>)
     ELSE None

BirthLabel ==
  Alt(<<Lit(<<"D","a","t","e"," ","o","f"," ","B","i","r","t","h">>), Lit(<<"D","O","B">>), Lit(<<"B","i","r","t","h"," ","D","a","t","e">>), Lit(<<"B","o","r","n">>), Lit(<<"B","i","r","t","h","d","a","y">>)>>)

FollowsBirthLabel(t, v) ==
  re_search(Pat(Seq_(<<BirthLabel, Plus(In({":"} \cup Space))>>), Lit(v), Empty), t).start # 0

YearOf(v) == SubSeq(v, Len(v) - 3, Len(v))

C4_BirthDateLabeledAndInRange ==
  \A i \in 1..Len(rx_returns) :
    LET v == rx_returns[i]["date_of_birth"]
    IN /\ v # None =>
            /\ FollowsBirthLabel(rx_text, v)
            /\ Len(v) >= 4 /\ isdigit(YearOf(v))
            /\ 1900 <= int(YearOf(v)) /\ int(YearOf(v)) <= 2010
       /\ rx_text = <<"D","a","t","e"," ","o","f"," ","B","i","r","t","h",":"," ","0","1","/","0","2","/","2","0","5","0">> => v = None
       /\ rx_text = <<"D","a","t","e"," ","o","f"," ","B","i","r","t","h",":"," ","0","1","/","0","2","/","1","9","8","5">> => v = <<"0","1","/","0","2","/","1","9","8","5">>

C4_Witness ==
  /\ rx_text = <<"I","n","v","o","i","c","e"," ","D","a","t","e",":"," ","0","3","/","0","4","/","1","9","9","9","\n","D","a","t","e"," ","o","f"," ","B","i","r","t","h",":"," ","0","1","/","0","2","/","1","9","8","5">>
  /\ Len(rx_returns) >= 1
  /\ rx_returns[1]["date_of_birth"] = <<"0","1","/","0","2","/","1","9","8","5">>

(***************************************************************************)
(* C5.  The email extract_all returns is the first address of the text     *)
(* that holds no generic keyword; the first address when all hold one;     *)
(* none when the text has no address.                                      *)
(***************************************************************************)
HoldsGenericKeyword(email) ==
  \E k \in {<<"b","i","l","l","i","n","g">>, <<"s","u","p","p","o","r","t">>, <<"i","n","f","o">>, <<"n","o","r","e","p","l","y">>, <<"n","o","-","r","e","p","l","y">>, <<"a","d","m","i","n">>} :
     Contains(lower(email), k)

C5_FirstNonGenericEmail ==
  \A i \in 1..Len(rx_returns) :
    LET found == re_findall(email_pattern, rx_text)
        personal == {j \in 1..Len(found) : ~ HoldsGenericKeyword(found[j])}
        v == rx_returns[i]["email"]
    IN /\ found = <<>> => v = None
       /\ found # <<>> /\ personal # {} => v = found[MinOf(personal)]
       /\ found # <<>> /\ personal = {} => v = found[1]
       /\ rx_text = <<"b","i","l","l","i","n","g","@","a","c","m","e",".","c","o","m","\n","j","a","n","e",".","d","o","e","@","a","c","m","e",".","c","o","m">> => v = <<"j","a","n","e",".","d","o","e","@","a","c","m","e",".","c","o","m">>

C5_Witness ==
  /\ rx_text = <<"b","i","l","l","i","n","g","@","a","c","m","e",".","c","o","m","\n","j","a","n","e",".","d","o","e","@","a","c","m","e",".","c","o","m">>
  /\ Len(rx_returns) >= 1
  /\ rx_returns[1]["email"] = <<"j","a","n","e",".","d","o","e","@","a","c","m","e",".","c","o","m">>

RECURSIVE ValidatedFrom(_, _, _, _)
ValidatedFrom(field, pat, s, m) ==
  IF m.start = 0 THEN None
  ELSE IF ValueOfMatch(field, s, m) # None THEN ValueOfMatch(field, s, m)
  ELSE ValidatedFrom(field, pat, s, SearchFrom(pat, s, Resume(m)))

\* the first candidate that passes validation, by pattern and then by place in the text
FirstValidated(pats, s, field) ==
  FirstValue([i \in 1..Len(pats) |-> ValidatedFrom(field, pats[i], s, re_search(pats[i], s))])

ValidatedPatterns ==
  ("phone" :> phone_patterns) @@ ("address" :> address_patterns) @@
  ("date_of_birth" :> dob_patterns) @@ ("company" :> company_patterns) @@
  ("job_title" :> job_title_patterns)

(***************************************************************************)
(* C23.  For a field with a validation rule the extractor returns the      *)
(* first candidate, by pattern priority and then by place in the text,     *)
(* that passes validation, and none only when no match of any pattern      *)
(* passes: "Date of Birth: 01/02/2050" before "Date of Birth: 01/02/1985"  *)
(* does not hide the second date.                                          *)
(***************************************************************************)
C23_FirstValidatedCandidate ==
  \A i \in 1..Len(rx_returns) :
    /\ \A field \in DOMAIN ValidatedPatterns :
         rx_returns[i][field] = FirstValidated(ValidatedPatterns[field], rx_text, field)
    /\ NameByPatterns(name_patterns, rx_text) # None =>
         rx_returns[i]["name"] = NameByPatterns(name_patterns, rx_text)

(***************************************************************************)
(* C24.  A phone number that extract_phone returns holds ten digits or     *)
(* more; a candidate with fewer, such as a number of nine digits after a   *)
(* "+", is not returned.                                                   *)
(***************************************************************************)
C24_PhoneHasTenDigits ==
  \A i \in 1..Len(rx_returns) :
    rx_returns[i]["phone"] # None => Len(Keep(rx_returns[i]["phone"], Digit)) >= 10

\* the characters of a word: a token stands alone when none is next to it
WordChars == Letter \cup Digit \cup {"_"}

AllDigits(t, first, last) == last <= Len(t) /\ \A q \in first..last : t[q] \in Digit

EndsToken(t, last) == last = Len(t) \/ t[last + 1] \notin WordChars

\* the standalone token of five digits, or of five digits, "-" and four digits, that
\* starts at p; None when no such token starts there
StandaloneZipAt(t, p) ==
  IF ~ (AllDigits(t, p, p + 4) /\ (p = 1 \/ t[p - 1] \notin WordChars)) THEN None
  ELSE IF p + 9 <= Len(t) /\ t[p + 5] = "-" /\ AllDigits(t, p + 6, p + 9) /\ EndsToken(t, p + 9)
  THEN SubSeq(t, p, p + 9)
  ELSE IF EndsToken(t, p + 4) THEN SubSeq(t, p, p + 4)
  ELSE None

(***************************************************************************)
(* C25.  extract_zip_code tries the unlabeled pattern first: when the text *)
(* holds a standalone token of five digits, or of five digits, "-" and     *)
(* four digits, the first such token is returned, whatever a "ZIP:",       *)
(* "Postal Code:" or "Postcode:" label says; the labeled pattern decides   *)
(* only when the text holds no standalone token.                           *)
(***************************************************************************)
C25_UnlabeledZipFirst ==
  \A i \in 1..Len(rx_returns) :
    LET tokens == {p \in 1..Len(rx_text) : StandaloneZipAt(rx_text, p) # None}
        labeled == re_search(zip_code_patterns[2], rx_text)
        v == rx_returns[i]["zip_code"]
    IN /\ tokens # {} => v = StandaloneZipAt(rx_text, MinOf(tokens))
       /\ tokens = {} => v = IF labeled.start = 0 THEN None ELSE group1(rx_text, labeled)
       /\ rx_text = <<"P","o","s","t","a","l"," ","C","o","d","e",":"," ","1","2","3","4","5","6","7">> => v = <<"1","2","3","4","5","6","7">>

C25_Witness ==
  /\ rx_text = <<"P","o","s","t","a","l"," ","C","o","d","e",":"," ","1","2","3","4","5","6","7","\n","r","e","f"," ","1","2","3","4","5","-","6","7","8","9">>
  /\ Len(rx_returns) >= 1
  /\ rx_returns[1]["zip_code"] = <<"1","2","3","4","5","-","6","7","8","9">>

(***************************************************************************)
(* C26.  A name that extract_name returns is two or three words, each of   *)
(* letters only and starting with a capital; the third word is part of it  *)
(* only when it is such a word too.                                        *)
(***************************************************************************)
C26_NameWordsCapitalized ==
  \A i \in 1..Len(rx_returns) :
    rx_returns[i]["name"] # None =>
      LET words == split(rx_returns[i]["name"])
      IN /\ Len(words) \in {2, 3}
         /\ \A w \in 1..Len(words) : isalpha(words[w]) /\ words[w][1] \in Upper

\* the lines that count toward the ten the scan looks at: neither blank nor a separator
CountedLines(text) ==
  SelectSeq(SplitOn(text, {"\n"}),
            LAMBDA line : /\ strip(line) # <<>>
                          /\ ~ StartsWith(strip(line), <<"=">>)
                          /\ Len(strip(line)) >= 5)

(***************************************************************************)
(* C27.  When no name pattern gives a validated match, extract_name looks  *)
(* at the first ten lines that are neither blank nor separators - the      *)
(* other lines do not count toward the ten - and returns the two leading   *)
(* capitalized words of the first of them that holds no label keyword;     *)
(* nothing if there is no such line among them.                            *)
(***************************************************************************)
C27_NameFromFirstTenLines ==
  \A i \in 1..Len(rx_returns) :
    NameByPatterns(name_patterns, rx_text) = None =>
      rx_returns[i]["name"] = NameFromLines(Take(CountedLines(rx_text), NameScanLines), 1)

(***************************************************************************)
(* What a metadata record says of its source: the row r of the structured  *)
(* lines, or that there is none.                                           *)
(***************************************************************************)
PointsAtRow(record, row) ==
  /\ record.source_text = row.text
  /\ record.source_page = row.page
  /\ record.source_line_no = {row.line}

SaysNotFound(record) ==
  /\ record.source_text = NotFound
  /\ record.source_page = {}
  /\ record.source_line_no = {}

\* the digits of a string, in order
DigitString(s) == SelectSeq(s, LAMBDA c : c \in Digit)

\* the rows whose digit string holds the digit string of the value
DigitRows(rows, value) ==
  {i \in 1..Len(rows) : Contains(DigitString(rows[i].text), DigitString(value))}

\* no row holds the trimmed value, whatever the case of the letters
InNoRow(rows, value) ==
  \A i \in 1..Len(rows) : ~ Contains(lower(rows[i].text), lower(strip(value)))

(***************************************************************************)
(* C6.  When the source line the AI extractor passed on names no row and   *)
(* no structured line holds the trimmed value as a case-insensitive        *)
(* substring, a value with digits is resolved by its digits: its record    *)
(* points at the first structured line, in document order, whose digit     *)
(* string holds the value's digit string; so "(555) 123-4567" gets the     *)
(* line "Phone: 555.123.4567".                                             *)
(***************************************************************************)
C6_ResolvedByDigits ==
  \A k \in DOMAIN extraction_metadata :
    LET record == extraction_metadata[k]
        hits == DigitRows(structured_lines, record.value)
    IN /\ IsStr(record.value)
       /\ resolve_source_entry(structured_lines, Get(ai_metadata, k)) = 0
       /\ InNoRow(structured_lines, record.value)
       /\ DigitString(record.value) # <<>>
       /\ hits # {}
       => /\ PointsAtRow(record, structured_lines[MinOf(hits)])
          /\ record.value = <<"(","5","5","5",")"," ","1","2","3","-","4","5","6","7">> => record.source_text = <<"P","h","o","n","e",":"," ","5","5","5",".","1","2","3",".","4","5","6","7">>

C6_Witness ==
  /\ "phone" \in DOMAIN extraction_metadata
  /\ extraction_metadata["phone"].value = <<"(","5","5","5",")"," ","1","2","3","-","4","5","6","7">>
  /\ ai_metadata["phone"] = <<"e","l","s","e","w","h","e","r","e">>
  /\ Cardinality(DigitRows(structured_lines, <<"(","5","5","5",")"," ","1","2","3","-","4","5","6","7">>)) = 2
  /\ extraction_metadata["phone"].source_text = <<"P","h","o","n","e",":"," ","5","5","5",".","1","2","3",".","4","5","6","7">>
  /\ extraction_metadata["phone"].source_page = {1}
  /\ extraction_metadata["phone"].source_line_no = {2}

(***************************************************************************)
(* C7, where the AI extractor found no source line for the field and       *)
(* passed "Not found" on.  A string value that _find_source_row_for_value  *)
(* finds in no structured line has a record that says "Not found", with    *)
(* no page and no line number.                                             *)
(***************************************************************************)
C7_UntracedValueNotFound ==
  \A k \in DOMAIN extraction_metadata :
    /\ IsStr(extraction_metadata[k].value)
    /\ Get(ai_metadata, k) = NotFound
    /\ find_source_row_for_value(structured_lines, extraction_metadata[k].value) = 0
    => SaysNotFound(extraction_metadata[k])

(***************************************************************************)
(* C9.  After an extraction that completed on the AI path, the metadata    *)
(* has a record for every field of the AI's value map, the fields whose    *)
(* value is the empty string included, and for no other field.             *)
(***************************************************************************)
C9_RecordForEveryField ==
  extraction_path = "ai" => DOMAIN extraction_metadata = DOMAIN extracted_data

(***************************************************************************)
(* C10.  Every record of extraction_metadata points at a row of the        *)
(* structured lines the form holds, with that row's text, page and line,   *)
(* or says "Not found" with no page and no line; a source line of the AI   *)
(* that is no structured line is not what the record holds.                *)
(***************************************************************************)
C10_SourceIsStructuredLine ==
  \A k \in DOMAIN extraction_metadata :
    \/ \E i \in 1..Len(structured_lines) :
          PointsAtRow(extraction_metadata[k], structured_lines[i])
    \/ SaysNotFound(extraction_metadata[k])

C10_Witness ==
  /\ "name" \in DOMAIN extraction_metadata
  /\ ai_metadata["name"] = <<"1",":"," ","F","u","l","l"," ","N","a","m","e",":"," ","J","o","h","n"," ","C","a","r","t","e","r">>
  /\ \A i \in 1..Len(structured_lines) : structured_lines[i].text # ai_metadata["name"]
  /\ extraction_metadata["name"].value = <<"J","o","n"," ","C","a","r","t","e","r">>
  /\ extraction_metadata["name"].source_text = <<"F","u","l","l"," ","N","a","m","e",":"," ","J","o","h","n"," ","C","a","r","t","e","r">>
  /\ extraction_metadata["name"].source_line_no = {1}

(***************************************************************************)
(* What the entries show of a mapping of found values: the value of each   *)
(* field that has one, nothing for the others.                             *)
(***************************************************************************)
Shows(shown, found) ==
  \A key \in FieldKeys :
    shown[key] = IF key \in DOMAIN found /\ found[key] # None THEN found[key] ELSE <<>>

(***************************************************************************)
(* C11.  When AI extraction is enabled and there is no API key, or the AI  *)
(* extractor returns an empty field map, the pattern extractor runs once,  *)
(* on the text of the document, and its values fill the form; without an   *)
(* API key the model is never asked.                                       *)
(***************************************************************************)
C11_FallbackToPatterns ==
  extraction_path \in {"regex: no API key", "regex: no AI results"} =>
    /\ pattern_runs = 1
    /\ extracted_data = extract_all(extracted_text)
    /\ Shows(entries, extracted_data)
    /\ extraction_path = "regex: no API key" => llm_prompts = <<>> /\ ai_response = NotAsked
    /\ extraction_path = "regex: no AI results" => ai_response # NotAsked

C11_Witness ==
  /\ extraction_path = "regex: no AI results"
  /\ ai_response.kind = "json"
  /\ extracted_text = ContactRecord
  /\ entries["name"] = <<"J","o","h","n"," ","C","a","r","t","e","r">>
  /\ entries["phone"] = <<"5","5","5","-","8","6","7","-","5","3","0","9">>
  /\ pattern_runs = 1

(***************************************************************************)
(* The source a search of the document lines gives a value: the first line *)
(* that holds the trimmed value, whatever the case, else the first line    *)
(* that holds its first two words, else "Not found".                       *)
(***************************************************************************)
LinesHolding(text, needle) ==
  {i \in 1..Len(SplitOn(text, {"\n"})) : Contains(lower(SplitOn(text, {"\n"})[i]), needle)}

DerivedSource(text, value) ==
  LET whole == LinesHolding(text, lower(strip(value)))
      start == LinesHolding(text, lower(join(<<" ">>, Take(split(value), 2))))
  IN IF whole # {} THEN strip(SplitOn(text, {"\n"})[MinOf(whole)])
     ELSE IF split(value) # <<>> /\ start # {} THEN strip(SplitOn(text, {"\n"})[MinOf(start)])
     ELSE NotFound

(***************************************************************************)
(* C12.  When the answer to the prompt that asks for source lines is not   *)
(* JSON and the second, field-only call returns values, these values fill  *)
(* the form, the pattern extractor does not run, and each value gets the   *)
(* source a search of the document lines gives it; the pattern extractor   *)
(* runs only when the second call returns nothing.                         *)
(***************************************************************************)
C12_FieldOnlyAnswerKept ==
  ai_response.kind = "not_json" =>
    IF DOMAIN ai_response.retry # {}
    THEN /\ extraction_path = "ai"
         /\ pattern_runs = 0
         /\ extracted_data = ai_response.retry
         /\ Shows(entries, extracted_data)
         /\ DOMAIN ai_metadata = DOMAIN extracted_data
         /\ \A k \in DOMAIN extracted_data :
               ai_metadata[k] = DerivedSource(extracted_text, extracted_data[k])
    ELSE /\ extraction_path = "regex: no AI results"
         /\ pattern_runs = 1
         /\ extracted_data = extract_all(extracted_text)

C12_Witness ==
  /\ ai_response.kind = "not_json"
  /\ selected_file = <<"s","c","a","n","s","/","p","h","o","n","e",".","P","D","F">>
  /\ extraction_path = "ai"
  /\ entries["name"] = <<"A","n","n"," ","L","e","e">>
  /\ entries["phone"] = <<"5","5","5"," ","1","2","3"," ","4","5","6","7">>
  /\ ai_metadata["name"] = <<"N","a","m","e",":"," ","A","n","n"," ","L","e","e">>
  /\ ai_metadata["phone"] = <<"C","e","l","l"," ","5","5","5"," ","1","2","3"," ","4","5","6","7">>

(***************************************************************************)
(* An answer that makes _store_ai_extraction_metadata raise: a field whose *)
(* value is a number other than 0 (a value that is not truthy is skipped)  *)
(* and whose source line is a line number past the last row, so that the   *)
(* value is looked up with the str methods.                                *)
(***************************************************************************)
NumberPastLastRow(resp, rows) ==
  /\ resp.kind = "json"
  /\ rows # <<>>
  /\ \E k \in DOMAIN resp.fields \cap DOMAIN resp.source_lines :
        /\ IsInt(resp.fields[k]) /\ Truthy(resp.fields[k])
        /\ IsStr(resp.source_lines[k]) /\ resp.source_lines[k] # <<>>
        /\ isdigit(resp.source_lines[k])
        /\ int(resp.source_lines[k]) > Len(rows)

PatternPaths == {"regex", "regex: no API key", "regex: no AI results", "regex: AI error"}

C14_PatternPathStoresNoMetadata ==
  /\ extraction_path \in PatternPaths => extraction_metadata = EmptyDict
  /\ extraction_metadata # EmptyDict => extraction_path = "ai" /\ ai_response # NotAsked

C14_Witness ==
  /\ extraction_path = "regex"
  /\ ~ use_ai_var
  /\ message_box = "showinfo"
  /\ pattern_runs = 1
  /\ selected_file = <<"c","o","n","t","a","c","t",".","t","x","t">>
  /\ entries["name"] = <<"J","o","h","n"," ","C","a","r","t","e","r">>
  /\ extraction_metadata = EmptyDict
  /\ structured_lines # <<>>

(***************************************************************************)
(* C15.  Every extraction that obtains the text of a document rebuilds     *)
(* structured_lines from nothing: while extracted_text holds a text,       *)
(* structured_lines is exactly the row sequence of that text, with no row  *)
(* of a document processed before, after any sequence of extractions.      *)
(***************************************************************************)
C15_RowsRebuiltFromText ==
  extracted_text # None =>
    /\ structured_lines = structured_lines_of(extracted_text)
    /\ message_box = "showinfo" => extracted_text = extract_text(selected_file)

C15_Witness ==
  /\ selected_file = <<"s","c","a","n","s","/","p","h","o","n","e",".","P","D","F">>
  /\ message_box = "showinfo"
  /\ extracted_text = extract_text(<<"s","c","a","n","s","/","p","h","o","n","e",".","P","D","F">>)
  /\ structured_lines = structured_lines_of(extract_text(<<"s","c","a","n","s","/","p","h","o","n","e",".","P","D","F">>))
  /\ Len(structured_lines) > 0
  /\ \A i \in 1..Len(structured_lines) :
        \A j \in 1..Len(document_rows[<<"c","o","n","t","a","c","t",".","t","x","t">>]) :
           structured_lines[i] # document_rows[<<"c","o","n","t","a","c","t",".","t","x","t">>][j]

(***************************************************************************)
(* C16.  The rows are discarded when the user clears the form or selects   *)
(* a document: structured_lines is empty right after _clear_form and       *)
(* right after _select_file has picked a file.                             *)
(***************************************************************************)
C16_RowsDiscarded ==
  [][(ClearForm \/ SelectFile) => structured_lines' = <<>>]_vars

\* the text that the prompt shows under line number n, without the number
PromptLine(prompt, n) ==
  LET shown == SplitOn(prompt, {"\n"})[n]
  IN SubSeq(shown, Len(str_int(n)) + 3, Len(shown))

(***************************************************************************)
(* C28.  A line number means the same line to the AIExtractor and to the   *)
(* form: when the model answers with the number N of a line of the         *)
(* numbered text it was shown, the source stored for the field is the line *)
(* that the prompt numbered N, in every document, with or without blank    *)
(* lines and page markers.                                                 *)
(***************************************************************************)
C28_LineNumberMeansPromptLine ==
  (extraction_path = "ai" /\ ai_response.kind = "json" /\ ~ Retried(ai_response)) =>
    \A key \in DOMAIN ai_response.source_lines \cap DOMAIN extraction_metadata :
      LET source_line == ai_response.source_lines[key]
          shown == SplitOn(llm_prompts[1], {"\n"})
      IN (/\ IsStr(source_line) /\ isdigit(source_line)
          /\ 1 <= int(source_line) /\ int(source_line) <= Len(shown)
          /\ strip(PromptLine(llm_prompts[1], int(source_line))) # <<>>) =>
           extraction_metadata[key].source_text
             = strip(PromptLine(llm_prompts[1], int(source_line)))

\* the handler that ran was _on_extract: it is the one that ends with a dialog
ExtractClicked == message_box' # "none"

\* the extraction cannot start: no file is selected or the parser gives no text
CannotStart == selected_file = None \/ ~ Truthy(document_text[selected_file])

(***************************************************************************)
(* C29.  An extraction that cannot start leaves the session as it was:     *)
(* when _on_extract runs with no file selected, or the parser returns no   *)
(* text, then extracted_text, structured_lines, extraction_metadata, the   *)
(* entries and the checkboxes keep their values and neither the AI         *)
(* extractor nor the pattern extractor is run.                             *)
(***************************************************************************)
C29_FailedStartChangesNothing ==
  [][(ExtractClicked /\ CannotStart) =>
       /\ UNCHANGED <<extracted_text, structured_lines, extraction_metadata,
                      entries, checkboxes>>
       /\ UNCHANGED <<ai_response, llm_prompts, pattern_runs, rx_returns>>]_vars

\* the document without text was tried after the contact record had filled the form
\* and a checkbox had been ticked: all of it is still there
C29_Witness ==
  /\ selected_file = <<"e","m","p","t","y",".","t","x","t">>
  /\ message_box = "showerror"
  /\ extracted_text = ContactRecord
  /\ structured_lines = document_rows[<<"c","o","n","t","a","c","t",".","t","x","t">>]
  /\ entries["name"] = <<"J","o","h","n"," ","C","a","r","t","e","r">>
  /\ checkboxes["name"]
  /\ pattern_runs = 1

(***************************************************************************)
(* C30.  The form shows the latest extraction only: right after an         *)
(* _on_extract that filled the form, the entry of each field holds the     *)
(* value this run extracted for the field, or nothing when this run found  *)
(* no value for it, and every checkbox is unchecked.                       *)
(***************************************************************************)
C30_FormShowsLatestExtraction ==
  message_box = "showinfo" =>
    /\ \A key \in FieldKeys :
         entries[key] = IF key \in DOMAIN extracted_data /\ extracted_data[key] # None
                        THEN str(extracted_data[key])
                        ELSE <<>>
    /\ \A key \in FieldKeys : ~ checkboxes[key]

(***************************************************************************)
(* Claims about the structured lines of a text (SpecLines).                *)
(***************************************************************************)
\* the first position of raw at or after p that holds no character of chars
SkipAll(raw, p, chars) ==
  IF \A q \in p..Len(raw) : raw[q] \in chars THEN Len(raw) + 1
  ELSE CHOOSE q \in p..Len(raw) : raw[q] \notin chars /\ \A r \in p..(q - 1) : raw[r] \in chars

HoldsAt(raw, p, word) ==
  p + Len(word) - 1 <= Len(raw) /\ SubSeq(raw, p, p + Len(word) - 1) = word

\* where the number of a line that begins "--- Page N ---" starts and ends
MarkerNumberSpan(raw) ==
  LET p1 == SkipAll(raw, 4, Space)
      p2 == SkipAll(raw, p1 + 4, Space)
      p3 == SkipAll(raw, p2, Digit)
  IN [first |-> p2, last |-> p3 - 1,
      holds |-> /\ HoldsAt(raw, 1, <<"-","-","-">>)
                /\ HoldsAt(raw, p1, <<"P","a","g","e">>)
                /\ p3 > p2
                /\ HoldsAt(raw, SkipAll(raw, p3, Space), <<"-","-","-">>)]

IsPageMarker(raw) == MarkerNumberSpan(raw).holds

NumberOfMarker(raw) == int(SubSeq(raw, MarkerNumberSpan(raw).first, MarkerNumberSpan(raw).last))

\* the rows of text are rows as the claim describes them
RowsAsDescribed(text, rows) ==
  LET raws == SplitOn(text, {"\n"})
      markers == {i \in 1..Len(raws) : IsPageMarker(raws[i])}
      kept == {i \in 1..Len(raws) : i \notin markers /\ strip(raws[i]) # <<>>}
      at(k) == CHOOSE i \in kept : Cardinality({j \in kept : j <= i}) = k
      before(i) == {m \in markers : m < i}
      last_marker(i) == IF before(i) = {} THEN 0 ELSE MaxOf(before(i))
  IN /\ Len(rows) = Cardinality(kept)
     /\ \A k \in 1..Len(rows) :
          /\ rows[k].text = strip(raws[at(k)])
          /\ rows[k].text # <<>>
          /\ rows[k].text[1] \notin Space /\ rows[k].text[Len(rows[k].text)] \notin Space
          /\ rows[k].page = IF before(at(k)) = {} THEN {}
                            ELSE {NumberOfMarker(raws[last_marker(at(k))])}
          /\ rows[k].line = Cardinality({j \in kept : last_marker(at(k)) < j /\ j <= at(k)})
          /\ rows[k].line = IF k > 1 /\ last_marker(at(k)) < at(k - 1)
                            THEN rows[k - 1].line + 1 ELSE 1

(***************************************************************************)
(* C17.  The structured lines of a text are its lines from top to bottom,  *)
(* without the blank lines and the page markers; the text of a row is the  *)
(* trimmed line and is not empty; the page of a row is the number of the   *)
(* last marker before it, none before the first marker; the line numbers   *)
(* run 1, 2, 3, ... from each marker on.                                   *)
(***************************************************************************)
C17_RowsOfText ==
  extracted_text # None => RowsAsDescribed(extracted_text, structured_lines)

C17_Witness ==
  /\ extracted_text = <<" "," ","A","n","n"," ","L","e","e"," ","\n","-","-","-"," ","P","a","g","e"," ","1"," ","-","-","-","\n"," "," ","\t","\n"," ","-","-","-"," ","P","a","g","e"," ","3"," ","-","-","-">>
  /\ structured_lines = << [page |-> {}, line |-> 1, text |-> <<"A","n","n"," ","L","e","e">>],
                           [page |-> {1}, line |-> 1, text |-> <<"-","-","-"," ","P","a","g","e"," ","3"," ","-","-","-">>] >>

(***************************************************************************)
(* Claims about the prompts of the AIExtractor (SpecPrompt).               *)
(***************************************************************************)
\* prompt carries no more of a long text than its first TextLimit characters and the
\* truncation marker, as they are or with every line numbered
Capped(prompt, text) ==
  \/ prompt = SubSeq(text, 1, TextLimit) \o <<"\n","\n","[","T","e","x","t"," ","t","r","u","n","c","a","t","e","d",".",".",".","]">>
  \/ prompt = numbered_text(SplitOn(SubSeq(text, 1, TextLimit) \o <<"\n","\n","[","T","e","x","t"," ","t","r","u","n","c","a","t","e","d",".",".",".","]">>,
                                    {"\n"}))

(***************************************************************************)
(* C18.  Whenever the AIExtractor invokes the model - in extract_all, in   *)
(* extract_all_with_metadata, in extract_custom - on a document of more    *)
(* than 8000 characters, the prompt carries the first 8000 characters of   *)
(* the document and the truncation marker, never the whole text.           *)
(***************************************************************************)
C18_PromptIsCapped ==
  (extracted_text # None /\ Len(extracted_text) > TextLimit) =>
     \A i \in 1..Len(llm_prompts) : Capped(llm_prompts[i], extracted_text)

(***************************************************************************)
(* Claims about _store_ai_extraction_metadata and the source resolver      *)
(* (SpecStore).                                                            *)
(***************************************************************************)
\* the field of the one-field answer that was stored
StoredKey == CHOOSE key \in DOMAIN extracted_data : TRUE

\* the rows that match value under each strategy of the resolver
ExactRows(rows, value) ==
  {i \in 1..Len(rows) : Contains(lower(rows[i].text), lower(strip(value)))}

DigitRowsOf(rows, value) ==
  {i \in 1..Len(rows) : Keep(value, Digit) # <<>>
                         /\ Contains(Keep(rows[i].text, Digit), Keep(value, Digit))}

SpelledRows(rows, value) ==
  {i \in 1..Len(rows) :
     /\ Keep(value, Digit) # <<>>
     /\ Contains(converted(SplitOn([p \in 1..Len(rows[i].text) |->
                                      IF rows[i].text[p] \in Letter THEN rows[i].text[p]
                                      ELSE " "], {" "})),
                 Keep(value, Digit))}

TokenRows(rows, value) ==
  {i \in 1..Len(rows) : split(value) # <<>>
                         /\ Contains(lower(rows[i].text), search_term(value, 3))}

\* the record of a field says its value was found in row i, or in no row when i = 0
SourceIsRow(record, rows, i) ==
  IF i = 0
  THEN record.source_text = NotFound /\ record.source_line_no = {} /\ record.source_page = {}
  ELSE /\ record.source_text = rows[i].text
       /\ record.source_line_no = {rows[i].line}
       /\ record.source_page = rows[i].page

\* the first row under the earliest strategy that matches any row, 0 when none does
CascadeRow(rows, value) ==
  LET strategies == <<ExactRows(rows, value), DigitRowsOf(rows, value),
                      SpelledRows(rows, value), TokenRows(rows, value)>>
      found == {s \in 1..4 : strategies[s] # {}}
  IN IF found = {} THEN 0 ELSE MinOf(strategies[MinOf(found)])

(***************************************************************************)
(* C19.  The resolver tries exact substring, digits, spelled-out digits    *)
(* and first words in this order, and returns the first row of the         *)
(* document that matches under the earliest strategy with a match: a later *)
(* row that holds the value as written wins over an earlier row that       *)
(* matches by another strategy only.                                       *)
(***************************************************************************)
C19_CascadeOrder ==
  (extracted_data # EmptyDict /\ ai_metadata = EmptyDict /\ IsStr(extracted_data[StoredKey])) =>
    /\ raised = "none"
    /\ StoredKey \in DOMAIN extraction_metadata
    /\ SourceIsRow(extraction_metadata[StoredKey], structured_lines,
                   CascadeRow(structured_lines, extracted_data[StoredKey]))

C19_Witness ==
  /\ extracted_text = <<"f","i","v","e"," ","f","i","v","e"," ","o","n","e"," ","t","w","o","\n","T","e","l"," ","5","5","-","1","2","\n","C","o","d","e"," ","5"," ","5"," ","1"," ","2">>
  /\ extracted_data = ("id_number" :> <<"5"," ","5"," ","1"," ","2">>)
  /\ ai_metadata = EmptyDict
  /\ raised = "none"
  /\ extraction_metadata["id_number"].source_text = <<"C","o","d","e"," ","5"," ","5"," ","1"," ","2">>
  /\ extraction_metadata["id_number"].source_line_no = {3}

\* the number a source line is when it is an integer or a string of digits, else none
PureInteger(source_line) ==
  IF IsInt(source_line) THEN {int(Tail(source_line))}
  ELSE IF IsStr(source_line) /\ isdigit(strip(source_line)) THEN {int(strip(source_line))}
  ELSE {}

(***************************************************************************)
(* C20.  When the source line the AI gives for a field is a pure integer   *)
(* N - a number or a string of digits - the field resolves to the N-th row *)
(* of structured_lines, counted across the pages, if 1 <= N <= the number  *)
(* of rows; if N is out of range the hint is ignored, the field is         *)
(* resolved by the value cascade, and nothing is raised.                   *)
(***************************************************************************)
C20_IntegerHintIsRowIndex ==
  (extracted_data # EmptyDict /\ PureInteger(Get(ai_metadata, StoredKey)) # {}) =>
    \A n \in PureInteger(ai_metadata[StoredKey]) :
      /\ raised = "none"
      /\ StoredKey \in DOMAIN extraction_metadata
      /\ SourceIsRow(extraction_metadata[StoredKey], structured_lines,
                     IF 1 <= n /\ n <= Len(structured_lines) THEN n
                     ELSE CascadeRow(structured_lines, str(extracted_data[StoredKey])))

\* source_line without a leading "<digits>: " numbering, trimmed
HintText(source_line) ==
  LET p == SkipAll(source_line, 1, Space)
      q == SkipAll(source_line, p, Digit)
  IN strip(IF q > p /\ q <= Len(source_line) /\ source_line[q] = ":"
           THEN SubSeq(source_line, q + 1, Len(source_line)) ELSE source_line)

\* the row a text hint names: the first row equal to it, else the first row that holds
\* it or that it holds; 0 when there is none
HintRow(rows, hint) ==
  LET equal == {i \in 1..Len(rows) : lower(rows[i].text) = lower(hint)}
      within == {i \in 1..Len(rows) : \/ Contains(lower(rows[i].text), lower(hint))
                                       \/ Contains(lower(hint), lower(rows[i].text))}
  IN IF hint = <<>> THEN 0
     ELSE IF equal # {} THEN MinOf(equal)
     ELSE IF within # {} THEN MinOf(within)
     ELSE 0

(***************************************************************************)
(* C21.  When the source line the AI gives is text, its leading            *)
(* "<digits>: " numbering is stripped and it is matched against the rows   *)
(* before the value is used: a row whose text equals it, whatever the      *)
(* case, wins over an earlier row that only holds it or is held by it;     *)
(* otherwise the first such row wins; the value cascade resolves the field *)
(* only when the hint matches no row.                                      *)
(***************************************************************************)
C21_TextHintBeforeValue ==
  (/\ extracted_data # EmptyDict
   /\ Truthy(Get(ai_metadata, StoredKey))
   /\ IsStr(Get(ai_metadata, StoredKey))
   /\ PureInteger(Get(ai_metadata, StoredKey)) = {}) =>
    LET row == HintRow(structured_lines, HintText(ai_metadata[StoredKey]))
    IN IF row # 0
       THEN /\ raised = "none"
            /\ SourceIsRow(extraction_metadata[StoredKey], structured_lines, row)
       ELSE IsStr(extracted_data[StoredKey]) =>
              /\ raised = "none"
              /\ SourceIsRow(extraction_metadata[StoredKey], structured_lines,
                             CascadeRow(structured_lines, extracted_data[StoredKey]))

C21_Witness ==
  /\ extracted_text = <<"T","e","l"," ","5","5","-","1","2"," ","e","x","t","\n","T","e","l"," ","5","5","-","1","2">>
  /\ extracted_data = ("id_number" :> <<"5"," ","5"," ","1"," ","2">>)
  /\ ai_metadata = ("id_number" :> <<"2",":"," ","t","e","l"," ","5","5","-","1","2">>)
  /\ raised = "none"
  /\ extraction_metadata["id_number"].source_text = <<"T","e","l"," ","5","5","-","1","2">>
  /\ extraction_metadata["id_number"].source_line_no = {2}

\* the rows that hold the first three words of value, or that these words hold
TokenRowsEitherWay(rows, value) ==
  {i \in 1..Len(rows) :
     /\ split(value) # <<>>
     /\ \/ Contains(lower(rows[i].text), search_term(value, 3))
        \/ Contains(search_term(value, 3), lower(rows[i].text))}

(***************************************************************************)
(* C22.  The last step of the resolver takes the first three words of the  *)
(* value at most, in lower case, and matches a row when these words are    *)
(* held by the text of the row or hold it; the first such row of the       *)
(* document is the source of the value.                                    *)
(***************************************************************************)
C22_PartialTokensEitherWay ==
  (/\ extracted_data # EmptyDict /\ ai_metadata = EmptyDict
   /\ IsStr(extracted_data[StoredKey])
   /\ ExactRows(structured_lines, extracted_data[StoredKey]) = {}
   /\ DigitRowsOf(structured_lines, extracted_data[StoredKey]) = {}
   /\ SpelledRows(structured_lines, extracted_data[StoredKey]) = {}) =>
    /\ raised = "none"
    /\ SourceIsRow(extraction_metadata[StoredKey], structured_lines,
                   FirstRow(TokenRowsEitherWay(structured_lines, extracted_data[StoredKey])))
====
